---- MODULE Spec2Model ----
(***************************************************************************)
(* A model of the lisogo object-document mapper: AbstractDocument (dirty   *)
(* tracking, toSON / fromSON, save), DocumentTransformer (embed or         *)
(* reference nested documents), ObjectCache / ObjectCacheCollection (the   *)
(* identity cache) and the decorated Cursor / Collection / Database of     *)
(* mongo_client.py.                                                        *)
(*                                                                         *)
(* The pymongo driver is outside the repository.  Its primitives are       *)
(* modelled by their documented contract: save inserts a mapping without   *)
(* `_id` under a fresh ObjectId and replaces (upserts) a mapping that has  *)
(* one, insert refuses a duplicate `_id`, update replaces the first match, *)
(* a write called with manipulate=True runs the database's incoming SON    *)
(* manipulators first, and a cursor step with manipulate=True runs the     *)
(* outgoing ones.                                                          *)
(***************************************************************************)
EXTENDS Integers, FiniteSets, Sequences, TLC

\* Number of live document instances the application holds.
MaxObj == 2
\* Number of ObjectIds the store can hand out.
MaxId == 2
\* Number of operations in one run.
MaxOps == 4
\* The number of calls of a run on the caches alone.
MaxCacheOps == 6
\* The number of calls of a run that iterates a cursor.
MaxCursorOps == 7
\* The number of calls of a run on the transformer.
MaxTransformOps == 5
\* The number of documents of a document graph.
MaxNode == 2
\* The number of calls of a run on a document graph, its construction included.
MaxGraphOps == 2
\* The number of nested save() calls the interpreter's recursion limit allows.
RecursionLimit == 3
\* The calls of a run against a server that refuses writes.
MaxFailOps == 6
\* The calls of a run that loads documents.
MaxLoadOps == 5

Obj == 1 .. MaxObj
\* None, as the value of `_id`
NoId == 0
Ids == 1 .. MaxId

\* The document classes (stubs of tests/lisogo/model.py) and their collections.
Types == {"DocumentWithNested", "AnotherConcrete", "NestedDocument"}
NoCollection == "None"
Collections == {"document_with_nested", "another_concrete"}
Fields == {"data", "nested", "foo"}
Scalars == {"a", "b"}

\* collection(db): db.<name>, or None for a class that can only be nested.
CollectionOf(type) ==
  CASE type = "DocumentWithNested" -> "document_with_nested"
    [] type = "AnotherConcrete" -> "another_concrete"
    [] OTHER -> NoCollection

\* The attributes the constructor of each class assigns.
InitFields(type) ==
  IF type = "DocumentWithNested" THEN {"data", "nested"} ELSE {"foo"}

(***************************************************************************)
(* Python values.  k is the kind: "unset" (no such attribute or key),      *)
(* "none", "str" (s), "doc" (a live document instance, n its identity),    *)
(* "oid" (an ObjectId n), "son" (the mapping toSON() of a nested-only      *)
(* document: field foo = s, `_id` = n when n is an id, `_type` = t),       *)
(* "ph" (a DocumentPlaceholder on collection s and id n) and "new" (a      *)
(* document instance of class t created while reading, with `_id` n and    *)
(* foo = s: an instance distinct from every instance of Obj).              *)
(***************************************************************************)
Val(k, n, s, t) == [k |-> k, n |-> n, s |-> s, t |-> t]
Unset == Val("unset", 0, "", "")
None == Val("none", 0, "", "")
Str(s) == Val("str", 0, s, "")
DocRef(o) == Val("doc", o, "", "")
Oid(i) == Val("oid", i, "", "")

NoFields == [f \in Fields |-> Unset]

\* A mapping as it is stored: `_id`, `_type`, the other keys (f) and
\* `_types_mapping` (tm: str(id) -> type name, "" for no entry; key 0 is 'None').
NoTypesMapping == [i \in 0 .. MaxId |-> ""]
Son(id, type, f, tm) == [id |-> id, type |-> type, f |-> f, tm |-> tm]
NoSon == Son(NoId, "", NoFields, NoTypesMapping)

\* An instance: `_id`, `_modified`, the public entries of __dict__, and the
\* two per-instance caches `_fields` and `_fieldnames` (set = the attribute exists).
NoFieldsCache == [set |-> FALSE, val |-> NoFields]
NoFieldnamesCache == [set |-> FALSE, val |-> {}]
NoDoc ==
  [type |-> "", id |-> NoId, modified |-> FALSE, dict |-> NoFields,
   fields |-> NoFieldsCache, fieldnames |-> NoFieldnamesCache]

\* AbstractDocument.__init__
DocInit(type) == [NoDoc EXCEPT !.type = type]

\* The names of the attributes the model assigns that ignoreMember rejects.
PrivateNames == {"_ignoredField"}

\* ignoreMember, as __setattr__ calls it (with the attribute name): the name
\* starts with an underscore.
ignoreMember(attribute) == attribute \in PrivateNames

\* getmembers(self) filtered by ignoreMember: the public entries of __dict__.
Members(d) == {f \in Fields : d.dict[f] # Unset}

_invalidateFieldsCache(d) == [d EXCEPT !.fields = NoFieldsCache]

\* fieldnamesToStore: the cached list when there is one
fieldnamesToStore(d) == IF d.fieldnames.set THEN d.fieldnames.val ELSE Members(d)
fieldnamesToStoreEffect(d) ==
  IF d.fieldnames.set THEN d
  ELSE [d EXCEPT !.fieldnames = [set |-> TRUE, val |-> Members(d)]]

\* fieldsToStore: the cached list of (name, value) when there is one
fieldsToStore(d) == IF d.fields.set THEN d.fields.val ELSE d.dict
fieldsToStoreEffect(d) ==
  IF d.fields.set THEN d ELSE [d EXCEPT !.fields = [set |-> TRUE, val |-> d.dict]]

\* attributeModified: the value returned
attributeModifiedResult(d, attribute, value) ==
  IF d.dict[attribute] # Unset
  THEN d.dict[attribute] # value /\ attribute \in fieldnamesToStore(d)
  ELSE TRUE

\* attributeModified that leaves the caches as they are
attributeModifiedKeepsCaches(d, attribute, value) == d

\* attributeModified: what it does to the caches
attributeModifiedEffect(d, attribute, value) ==
  IF d.dict[attribute] # Unset
  THEN IF d.dict[attribute] # value
       THEN fieldnamesToStoreEffect(_invalidateFieldsCache(d))
       ELSE d
  ELSE [_invalidateFieldsCache(d) EXCEPT !.fieldnames = NoFieldnamesCache]

\* __setattr__ that marks the document modified on every public assignment
SetattrModifiedAlways(d, attribute, value) == TRUE

\* The new value of `_modified` on an assignment to a public attribute.
SetattrModified(d, attribute, value) == attributeModifiedResult(d, attribute, value)

\* __setattr__
Setattr(d, attribute, value) ==
  IF ignoreMember(attribute)
  THEN d
  ELSE [attributeModifiedEffect(d, attribute, value) EXCEPT
          !.modified = SetattrModified(d, attribute, value),
          !.dict[attribute] = value]

\* toSON: `_id` when not None, the fields to store, `_type`
toSON(d) == Son(d.id, d.type, fieldsToStore(d), NoTypesMapping)

\* fromSON accepting every `_type`
fromSONAcceptsAny(d, son) == TRUE

\* fromSON: the assertion on `_type`
fromSONAccepts(d, son) == son.type = d.type

\* fromSON: the exception of its first statement, "" for none: son['_type']
\* raises KeyError when the mapping has no `_type` (type ""), and the
\* assertion fails when it names another class.
fromSONRaises(d, son) ==
  IF son.type = "" THEN "KeyError"
  ELSE IF ~fromSONAccepts(d, son) THEN "AssertionError"
  ELSE ""

\* fromSON: copies every key but `_type` and `_types_mapping` into __dict__
fromSON(d, son) ==
  [d EXCEPT !.id = IF son.id # NoId THEN son.id ELSE d.id,
            !.dict = [f \in Fields |-> IF son.f[f] # Unset THEN son.f[f] ELSE d.dict[f]],
            !.modified = FALSE]

(***************************************************************************)
(* ObjectCache: is_enabled and the dictionary `_cache` (c: key -> value,   *)
(* 0 for no entry; the values are instances).  exists tells whether the    *)
(* registry of ObjectCacheCollection holds a cache under the name yet.     *)
(* The key 0 stands for a key that is not an ObjectId.                     *)
(***************************************************************************)
NoEntries == [i \in 0..MaxId |-> 0]
\* ObjectCache.__init__
ObjectCache(is_enabled) == [exists |-> TRUE, is_enabled |-> is_enabled, c |-> NoEntries]
NoCache == [exists |-> FALSE, is_enabled |-> FALSE, c |-> NoEntries]

\* __getitem__: the value, 0 standing for KeyError
CacheGetitem(oc, key) == IF ~oc.is_enabled \/ key \notin Ids THEN 0 ELSE oc.c[key]

\* __setitem__ without the test of the key's type
CacheSetitemNeverRaises(oc, key) == FALSE

\* __setitem__ raises TypeError for a key that is not an ObjectId, once it
\* has found the cache enabled
CacheSetitemRaises(oc, key) == oc.is_enabled /\ key \notin Ids

\* __setitem__ without the test of is_enabled
CacheSetitemWhileDisabled(oc, key, value) ==
  IF key \notin Ids THEN oc ELSE [oc EXCEPT !.c[key] = value]

\* __setitem__
CacheSetitem(oc, key, value) ==
  IF ~oc.is_enabled \/ CacheSetitemRaises(oc, key) THEN oc ELSE [oc EXCEPT !.c[key] = value]

\* __delitem__
CacheDelitem(oc, key) == [oc EXCEPT !.c[key] = 0]

\* __len__
CacheLen(oc) == IF ~oc.is_enabled THEN 0 ELSE Cardinality({i \in DOMAIN oc.c : oc.c[i] # 0})

\* __contains__
CacheContains(oc, key) == oc.is_enabled /\ key \in Ids /\ oc.c[key] # 0

\* __iter__: the keys the iterator yields
CacheIter(oc) == IF ~oc.is_enabled THEN {} ELSE {i \in DOMAIN oc.c : oc.c[i] # 0}

\* clear(), inherited from MutableMapping: popitem() until the iterator is
\* empty, each popitem taking next(iter(self)), reading it and deleting it.
RECURSIVE CacheClear(_)
CacheClear(oc) ==
  IF CacheIter(oc) = {}
  THEN oc
  ELSE LET key == CHOOSE k \in CacheIter(oc) : TRUE
       IN CacheClear(CacheDelitem(oc, key))

\* A Cursor made by find(spec) on db.<name>: the kind of Collection it was
\* made on (h), `_unique_already_returned`, the number of documents the
\* driver's cursor has returned (fetched) and the number of documents the
\* iteration has yielded.  open tells whether the application holds one,
\* sent whether the driver has sent the query: its reply holds what the
\* store matched at that moment.
NoCursor ==
  [open |-> FALSE, name |-> "", h |-> "", spec |-> 0,
   _unique_already_returned |-> FALSE, sent |-> FALSE, fetched |-> 0, yielded |-> 0]

(***************************************************************************)
(* The state.                                                              *)
(***************************************************************************)
VARIABLES
  docs,                    \* the live instances: Obj -> instance (NoDoc: none yet)
  store,                   \* mongodb: collection name -> id -> stored mapping
  nextId,                  \* the next ObjectId the driver generates
  caches,                  \* ObjectCacheCollection._object_cache_per_collection
  cache_is_enabled,        \* Database._cache_is_enabled
  second_cache_is_enabled, \* `_cache_is_enabled` of a second Database of the process
  lazy_loading_is_enabled, \* Database._lazy_loading_is_enabled
  last,                    \* the last call: its arguments, result, exception
  cursor,                  \* the Cursor the application iterates
  graph,                   \* a graph of documents that hold documents, and its last call
  ops                      \* number of calls left in the run

vars ==
  <<docs, store, nextId, caches, cache_is_enabled, second_cache_is_enabled,
    lazy_loading_is_enabled, last, cursor, graph, ops>>

(***************************************************************************)
(* What one call works on and leaves behind: W.err is the exception that   *)
(* ended it ("" for none), W.ret the identifier it returned, W.wrote       *)
(* whether a write primitive of the driver was invoked, W.son the mapping  *)
(* in hand, W.sons and W.ids the mappings and the identifiers of an insert, *)
(* W.res the value returned                                                *)
(* and W.mat the instance a read has created.  W.fail = k > 0 says that the *)
(* server refuses the k-th write of the call (the driver then raises        *)
(* OperationFailure); 0 that it accepts them all.                           *)
(***************************************************************************)
World ==
  [docs |-> docs, store |-> store, nextId |-> nextId, caches |-> caches,
   wrote |-> FALSE, read |-> FALSE, err |-> "", ret |-> NoId, son |-> NoSon,
   res |-> Unset, mat |-> NoDoc, ids |-> <<>>, sons |-> <<>>, fail |-> 0]

Raise(W, exception) == [W EXCEPT !.err = exception]

\* Database.__getattr__: the kind of Collection handed out: bound to the
\* registry's cache of that name, or left with its own disabled ObjectCache.
HandleKind == IF cache_is_enabled THEN "registry" ELSE "private"

\* __getattr__ that gives every Collection a cache of its own
GetattrFresh(W, name) ==
  IF cache_is_enabled
  THEN [W EXCEPT !.caches[name] = ObjectCache(TRUE)]
  ELSE W

\* Database.__getattr__ / ObjectCacheCollection.get_cache(name, create_if_needed=True)
Getattr(W, name) ==
  IF cache_is_enabled /\ ~W.caches[name].exists
  THEN [W EXCEPT !.caches[name] = ObjectCache(TRUE)]
  ELSE W

\* Collection.cache
CollectionCache(W, name, h) ==
  IF h = "registry" THEN W.caches[name] ELSE ObjectCache(FALSE)

\* A Collection that caches nothing
CollectionCacheSetDropped(W, name, h, key, value) == W

\* self._cache[key] = value in a Collection
CollectionCacheSet(W, name, h, key, value) ==
  IF CacheSetitemRaises(CollectionCache(W, name, h), key)
  THEN Raise(W, "TypeError")
  ELSE IF h = "registry"
       THEN [W EXCEPT !.caches[name] = CacheSetitem(@, key, value)]
       ELSE W

\* bson cannot encode an instance, a placeholder: InvalidDocument
Encodable(son) == \A f \in Fields : son.f[f].k \in {"unset", "none", "str", "oid", "son"}

\* The identifier under which the driver's save or insert stores a mapping:
\* its `_id`, or a fresh ObjectId.
StoredId(W) == IF W.son.id = NoId THEN W.nextId ELSE W.son.id

\* The driver's save of the mapping W.son: insert under a fresh ObjectId when
\* it has no `_id`, replace (upsert) otherwise.  A run that needs more than
\* MaxId identifiers is cut (Commit refuses it).  As every step below, it is
\* not reached when an exception is on its way (W.err).
RawSave(W, name) ==
  IF W.err # "" THEN W
  ELSE IF ~Encodable(W.son) THEN Raise(W, "InvalidDocument")
  ELSE IF W.fail = 1 THEN Raise([W EXCEPT !.wrote = TRUE], "OperationFailure")
  ELSE IF StoredId(W) \notin Ids THEN [W EXCEPT !.nextId = MaxId + 2]
  ELSE [W EXCEPT !.store[name][StoredId(W)] = [W.son EXCEPT !.id = StoredId(W)],
                 !.nextId = IF W.son.id = NoId THEN @ + 1 ELSE @,
                 !.fail = IF @ > 1 THEN @ - 1 ELSE @,
                 !.wrote = TRUE,
                 !.ret = StoredId(W)]

\* The driver's insert of the mapping W.son: DuplicateKeyError when its `_id`
\* is taken.
RawInsert(W, name) ==
  IF W.err # "" THEN W
  ELSE IF ~Encodable(W.son) THEN Raise(W, "InvalidDocument")
  ELSE IF W.son.id # NoId /\ W.store[name][W.son.id] # NoSon
  THEN Raise([W EXCEPT !.wrote = TRUE], "DuplicateKeyError")
  ELSE RawSave(W, name)

\* The documents of a collection a query spec matches: spec 0 is the empty
\* spec, spec i is {"_id": i}.
Matches(W, name, spec) ==
  {i \in Ids : W.store[name][i] # NoSon /\ (spec = 0 \/ spec = i)}

\* The first document a cursor yields, NoId when there is none.
FirstMatch(W, name, spec) ==
  IF Matches(W, name, spec) = {} THEN NoId
  ELSE CHOOSE i \in Matches(W, name, spec) : \A j \in Matches(W, name, spec) : i <= j

\* The driver's update(spec, W.son) on the first match m: the document is
\* replaced and keeps its `_id`; the server refuses to change an `_id`.
RawUpdateMatch(W, name, m) ==
  IF m = NoId THEN [W EXCEPT !.wrote = TRUE]
  ELSE IF W.son.id # NoId /\ W.son.id # m
  THEN Raise([W EXCEPT !.wrote = TRUE], "OperationFailure")
  ELSE [W EXCEPT !.store[name][m] = [W.son EXCEPT !.id = m], !.wrote = TRUE]

\* The driver's update(spec, W.son)
RawUpdate(W, name, spec) ==
  IF W.err # "" THEN W
  ELSE IF ~Encodable(W.son) THEN Raise(W, "InvalidDocument")
  ELSE RawUpdateMatch(W, name, FirstMatch(W, name, spec))

(***************************************************************************)
(* DocumentTransformer and the write path.                                 *)
(***************************************************************************)
\* The keys of a mapping whose value is an AbstractDocument instance.
DocumentKeys(son) == {f \in Fields : son.f[f].k = "doc"}

\* value.toSON() as a value of the enclosing mapping
Embedded(d) == Val("son", d.id, fieldsToStore(d)["foo"].s, d.type)

RECURSIVE DocSave(_, _)
RECURSIVE TransformKeys(_, _, _)

\* transform_incoming, a key holding an instance that has a collection, once
\* value.save(db) has returned S: son[key] = value.id, and
\* types_mapping[str(value.id)] = the name of its class.  son is the mapping
\* being transformed.
Reference(S, son, key, d) ==
  IF S.err # ""
  THEN [S EXCEPT !.son = son]
  ELSE [S EXCEPT !.son = [son EXCEPT !.f[key] = IF d.id = NoId THEN None ELSE Oid(d.id),
                                     !.tm[d.id] = d.type]]

\* transform_incoming that references whatever the collection argument is
TransformKeyAlwaysReference(W, name, key, o) ==
  IF CollectionOf(W.docs[o].type) # NoCollection
  THEN Reference(DocSave(Getattr(W, CollectionOf(W.docs[o].type)), o), W.son, key,
                 DocSave(Getattr(W, CollectionOf(W.docs[o].type)), o).docs[o])
  ELSE [W EXCEPT !.son.f[key] = Embedded(W.docs[o]),
                 !.docs[o] = fieldsToStoreEffect(@)]

\* transform_incoming, the body of the loop for a key holding the instance o:
\* save it and store its id when it has a collection, embed it otherwise.
\* name is NoCollection when the collection argument is None.
TransformKey(W, name, key, o) ==
  IF name # NoCollection /\ CollectionOf(W.docs[o].type) # NoCollection
  THEN Reference(DocSave(Getattr(W, CollectionOf(W.docs[o].type)), o), W.son, key,
                 DocSave(Getattr(W, CollectionOf(W.docs[o].type)), o).docs[o])
  ELSE [W EXCEPT !.son.f[key] = Embedded(W.docs[o]),
                 !.docs[o] = fieldsToStoreEffect(@)]

TransformKeys(W, name, keys) ==
  IF keys = {} \/ W.err # ""
  THEN W
  ELSE TransformKeys(TransformKey(W, name, CHOOSE k \in keys : TRUE,
                                  W.son.f[CHOOSE k \in keys : TRUE].n),
                     name, keys \ {CHOOSE k \in keys : TRUE})

\* transform_incoming, a value that is an instance created by a read (class
\* v.t, `_id` v.n, not modified since its fromSON): its save() returns at
\* once and its id is stored when it has a collection, it is embedded
\* otherwise.
CreatedValue(v, name) ==
  IF v.k # "new" THEN v
  ELSE IF name # NoCollection /\ CollectionOf(v.t) # NoCollection
  THEN (IF v.n = NoId THEN None ELSE Oid(v.n))
  ELSE Val("son", v.n, v.s, v.t)

\* transform_incoming, the entries of `_types_mapping` for those instances
CreatedTypes(son, name) ==
  [i \in 0 .. MaxId |->
     IF \E f \in Fields : /\ son.f[f].k = "new"
                           /\ son.f[f].n = i
                           /\ name # NoCollection
                           /\ CollectionOf(son.f[f].t) # NoCollection
     THEN son.f[CHOOSE f \in Fields : son.f[f].k = "new" /\ son.f[f].n = i].t
     ELSE son.tm[i]]

TransformCreated(W, name) ==
  IF W.err # "" THEN W
  ELSE [W EXCEPT !.son.f = [f \in Fields |-> CreatedValue(W.son.f[f], name)],
                 !.son.tm = CreatedTypes(W.son, name)]

\* DocumentTransformer.transform_incoming(son, collection) on W.son
transform_incoming(W, name) ==
  TransformCreated(TransformKeys(W, name, DocumentKeys(W.son)), name)

\* transform_outgoing, a key holding an ObjectId that `_types_mapping` maps to
\* doctype, with lazy loading disabled: document.retrieve(value, db)
OutgoingRetrieve(W, key, id, doctype, name) ==
  IF name = NoCollection THEN Raise(W, "RetrieveError")
  ELSE IF W.store[name][id] = NoSon THEN Raise([W EXCEPT !.read = TRUE], "NotFoundError")
  ELSE [W EXCEPT !.son.f[key] = Val("new", id, W.store[name][id].f["foo"].s, doctype),
                 !.read = TRUE]

\* transform_outgoing that always retrieves
OutgoingReferenceEager(W, key, id, doctype, name) ==
  OutgoingRetrieve(W, key, id, doctype, name)

\* transform_outgoing, a key holding an ObjectId that `_types_mapping` maps to
\* doctype: a DocumentPlaceholder on the collection of that class when lazy
\* loading is enabled, the retrieved document otherwise.
OutgoingReference(W, key, id, doctype, name) ==
  IF lazy_loading_is_enabled
  THEN [W EXCEPT !.son.f[key] = Val("ph", id, name, doctype)]
  ELSE OutgoingRetrieve(W, key, id, doctype, name)

\* document.collection(collection.database) in transform_outgoing
OutgoingGetattr(W, name) == IF name = NoCollection THEN W ELSE Getattr(W, name)

\* DocumentTransformer.transform_outgoing, the body of the loop for one key
OutgoingKey(W, key) ==
  IF W.son.f[key].k = "oid"
  THEN IF W.son.tm[W.son.f[key].n] = ""
       THEN W
       ELSE IF W.son.tm[W.son.f[key].n] \notin Types
       THEN Raise(W, "AttributeError")
       ELSE OutgoingReference(OutgoingGetattr(W, CollectionOf(W.son.tm[W.son.f[key].n])),
                              key, W.son.f[key].n, W.son.tm[W.son.f[key].n],
                              CollectionOf(W.son.tm[W.son.f[key].n]))
  ELSE IF W.son.f[key].k = "son"
  THEN [W EXCEPT !.son.f[key] = Val("new", @.n, @.s, @.t)]
  ELSE W

RECURSIVE OutgoingKeys(_, _)
OutgoingKeys(W, keys) ==
  IF keys = {} \/ W.err # ""
  THEN W
  ELSE OutgoingKeys(OutgoingKey(W, CHOOSE k \in keys : TRUE),
                    keys \ {CHOOSE k \in keys : TRUE})

\* DocumentTransformer.transform_outgoing(son, collection) on W.son
transform_outgoing(W) == OutgoingKeys(W, Fields)

\* toSON() in Collection._serialize
SerializeToSON(W, o) ==
  [W EXCEPT !.son = toSON(W.docs[o]), !.docs[o] = fieldsToStoreEffect(@)]

\* Collection._serialize: toSON(), and with manipulate=False the call of
\* _transform_incoming_document, whose definition in force is the second one
\* of the class: it applies transform_outgoing.
Serialize(W, o, manipulate) ==
  IF W.err # "" THEN W
  ELSE IF manipulate THEN SerializeToSON(W, o)
  ELSE transform_outgoing(SerializeToSON(W, o))

\* The driver's _fix_incoming: with manipulate=True the incoming manipulators
\* of the database are applied before the write.
FixIncoming(W, name, manipulate) ==
  IF manipulate /\ W.err = "" THEN transform_incoming(W, name) ELSE W

\* Collection.save, after the driver's save: to_save._id = result and
\* self._cache[result] = to_save
SaveWriteBack(R, name, h, o) ==
  IF R.err # "" THEN R
  ELSE CollectionCacheSet([R EXCEPT !.docs[o].id = R.ret], name, h, R.ret, o)

\* Collection.save(to_save, manipulate)
CollectionSave(W, name, h, o, manipulate) ==
  SaveWriteBack(RawSave(FixIncoming(Serialize(W, o, manipulate), name, manipulate), name),
                name, h, o)

\* AbstractDocument.save that leaves _modified as it is
SavedStillModified(S, o) ==
  IF S.err # "" THEN S ELSE [S EXCEPT !.docs[o].id = S.ret]

\* AbstractDocument.save that resets _modified whatever collection.save did
SavedWhateverHappened(S, o) == [S EXCEPT !.docs[o].modified = FALSE]

\* AbstractDocument.save, after collection.save(self) has returned S:
\* self._id = its result, and _modified = False
Saved(S, o) ==
  IF S.err # "" THEN S
  ELSE [S EXCEPT !.docs[o].id = S.ret, !.docs[o].modified = FALSE]

\* AbstractDocument.save(db) without the test of modified
DocSaveAlways(W, o) ==
  IF CollectionOf(W.docs[o].type) = NoCollection
  THEN Raise(W, "PersistError")
  ELSE Saved(CollectionSave(Getattr(W, CollectionOf(W.docs[o].type)),
                            CollectionOf(W.docs[o].type), HandleKind, o, TRUE), o)

\* AbstractDocument.save(db)
DocSave(W, o) ==
  IF ~W.docs[o].modified
  THEN W
  ELSE IF CollectionOf(W.docs[o].type) = NoCollection
  THEN Raise(W, "PersistError")
  ELSE Saved(CollectionSave(Getattr(W, CollectionOf(W.docs[o].type)),
                            CollectionOf(W.docs[o].type), HandleKind, o, TRUE), o)

\* W.sons.append(W.son)
Collect(W) == [W EXCEPT !.sons = Append(@, W.son)]

\* Collection.insert(doc_or_docs, manipulate): every document of the list is
\* serialized before the driver is called.  W.sons collects the mappings.
RECURSIVE SerializeEach(_, _, _)
SerializeEach(W, os, manipulate) ==
  IF os = <<>> \/ W.err # ""
  THEN W
  ELSE SerializeEach(Collect(Serialize(W, Head(os), manipulate)), Tail(os), manipulate)

\* W.son := W.sons[key]
Pick(W, key) == [W EXCEPT !.son = W.sons[key]]

\* W.sons[key] := W.son
Put(W, key) == [W EXCEPT !.sons[key] = W.son]

\* The driver's insert applies the incoming manipulators to every mapping
\* (manipulate=True) before it sends any.
RECURSIVE FixIncomingEach(_, _, _, _)
FixIncomingEach(W, name, key, manipulate) ==
  IF key > Len(W.sons) \/ W.err # ""
  THEN W
  ELSE FixIncomingEach(Put(FixIncoming(Pick(W, key), name, manipulate), key),
                       name, key + 1, manipulate)

\* W.ids := W.ids + [W.ret]
Returned(R) == IF R.err # "" THEN R ELSE [R EXCEPT !.ids = Append(@, R.ret)]

\* The driver's insert of the mappings, in order; it stops at the first
\* error.  W.ids collects the identifiers returned.
RECURSIVE RawInsertEach(_, _, _)
RawInsertEach(W, name, key) ==
  IF key > Len(W.sons) \/ W.err # ""
  THEN W
  ELSE RawInsertEach(Returned(RawInsert(Pick(W, key), name)), name, key + 1)

\* Collection.insert, the loop after the driver's insert: the identifiers are
\* written back to the instances and the instances cached.
RECURSIVE InsertWriteBack(_, _, _, _, _)
InsertWriteBack(W, name, h, os, key) ==
  IF key > Len(os) \/ W.err # ""
  THEN W
  ELSE InsertWriteBack(
         CollectionCacheSet([W EXCEPT !.docs[os[key]].id = W.ids[key]],
                            name, h, W.ids[key], os[key]),
         name, h, os, key + 1)

\* Collection.insert(doc_or_docs, manipulate): os is the list, or the one
\* document of the call.
CollectionInsert(W, name, h, os, manipulate) ==
  InsertWriteBack(
    RawInsertEach(FixIncomingEach(SerializeEach(W, os, manipulate), name, 1, manipulate),
                  name, 1),
    name, h, os, 1)

\* Collection.update, after the driver's update: the document is cached under
\* its id when the report the driver returns has no err (a MongoClient
\* acknowledges its writes; a refused write raises).
UpdateWriteBack(R, name, h, o) ==
  IF R.err # "" THEN R
  ELSE CollectionCacheSet(R, name, h, R.docs[o].id, o)

\* Collection.update(spec, document, manipulate)
CollectionUpdate(W, name, h, spec, o, manipulate) ==
  UpdateWriteBack(
    RawUpdate(FixIncoming(Serialize(W, o, manipulate), name, manipulate), name, spec),
    name, h, o)

(***************************************************************************)
(* The read path.                                                          *)
(***************************************************************************)
\* _unserialize that leaves the new instance blank
UnserializeBlank(W) ==
  [W EXCEPT !.mat = DocInit(W.son.type),
            !.res = Val("new", W.son.id, "", W.son.type)]

\* Collection._unserialize: an instance of the class named by `_type`,
\* populated by fromSON.
Unserialize(W) ==
  [W EXCEPT !.mat = fromSON(DocInit(W.son.type), W.son),
            !.res = Val("new", W.son.id, "", W.son.type)]

\* Cursor.next, after the driver's next() has fetched a document and applied
\* the outgoing manipulators: the cache is asked for the document's id, and
\* the document is unserialized on a miss.
CursorFetched(W, name, h) ==
  IF W.err # "" THEN W
  ELSE IF CacheGetitem(CollectionCache(W, name, h), W.son.id) # 0
  THEN [W EXCEPT !.res = DocRef(CacheGetitem(CollectionCache(W, name, h), W.son.id))]
  ELSE Unserialize(W)

\* The driver's Cursor.next: the first match, through the outgoing
\* manipulators (manipulate=True), or StopIteration.
RawNext(W, name, m) ==
  IF m = NoId THEN Raise([W EXCEPT !.read = TRUE], "StopIteration")
  ELSE transform_outgoing([W EXCEPT !.son = W.store[name][m], !.read = TRUE])

\* Cursor.next, the first step of a cursor made by find(spec): no field
\* projection, no skip.
CursorNext(W, name, h, spec) ==
  IF spec # 0 /\ CacheGetitem(CollectionCache(W, name, h), spec) # 0
  THEN [W EXCEPT !.res = DocRef(CacheGetitem(CollectionCache(W, name, h), spec))]
  ELSE CursorFetched(RawNext(W, name, FirstMatch(W, name, spec)), name, h)

\* Cursor.next on the cursor c of a find({"_id": c.spec}): the cache of the
\* cursor's Collection is asked first, unless a cached document was already
\* returned; then the driver's cursor, whose reply to a single-id query
\* holds at most one document.
CursorHit(W, c) ==
  /\ ~c._unique_already_returned
  /\ CacheGetitem(CollectionCache(W, c.name, c.h), c.spec) # 0

CursorNextOf(W, c) ==
  IF c._unique_already_returned THEN Raise(W, "StopIteration")
  ELSE IF CursorHit(W, c)
  THEN [W EXCEPT !.res = DocRef(CacheGetitem(CollectionCache(W, c.name, c.h), c.spec))]
  ELSE IF c.sent THEN Raise(W, "StopIteration")
  ELSE CursorFetched(RawNext(W, c.name, FirstMatch(W, c.name, c.spec)), c.name, c.h)

\* The cursor after that step
CursorAfter(W, c, R) ==
  [c EXCEPT !._unique_already_returned = @ \/ CursorHit(W, c),
            !.sent = @ \/ (~c._unique_already_returned /\ ~CursorHit(W, c)),
            !.fetched = IF R.read /\ R.son # NoSon THEN @ + 1 ELSE @,
            !.yielded = IF R.err = "" THEN @ + 1 ELSE @]

\* AbstractDocument.retrieve, after the driver has found a document and
\* applied the outgoing manipulators to it: self.fromSON(found)
Populate(W, o) ==
  IF W.err # "" THEN W
  ELSE IF fromSONRaises(W.docs[o], W.son) # ""
  THEN Raise(W, fromSONRaises(W.docs[o], W.son))
  ELSE [W EXCEPT !.docs[o] = fromSON(@, W.son)]

\* retrieve that returns the target as it is when nothing is found
DocRetrieveSilent(W, o, id) ==
  IF CollectionOf(W.docs[o].type) = NoCollection
  THEN Raise(W, "RetrieveError")
  ELSE IF id \notin Ids \/ W.store[CollectionOf(W.docs[o].type)][id] = NoSon
  THEN [Getattr(W, CollectionOf(W.docs[o].type)) EXCEPT !.read = TRUE]
  ELSE Populate(
         transform_outgoing(
           [Getattr(W, CollectionOf(W.docs[o].type)) EXCEPT
              !.son = W.store[CollectionOf(W.docs[o].type)][id], !.read = TRUE]), o)

\* AbstractDocument.retrieve that marks the target as loaded before it looks
\* for the document
DocRetrieveClearing(W, o, id) ==
  IF CollectionOf(W.docs[o].type) = NoCollection
  THEN Raise(W, "RetrieveError")
  ELSE IF id \notin Ids \/ W.store[CollectionOf(W.docs[o].type)][id] = NoSon
  THEN Raise([Getattr(W, CollectionOf(W.docs[o].type)) EXCEPT
                !.read = TRUE, !.docs[o].modified = FALSE],
             "NotFoundError")
  ELSE Populate(
         transform_outgoing(
           [Getattr(W, CollectionOf(W.docs[o].type)) EXCEPT
              !.son = W.store[CollectionOf(W.docs[o].type)][id], !.read = TRUE]), o)

\* AbstractDocument.retrieve that registers the populated document in the
\* Identity Cache of its collection
DocRetrieveRegistering(W, o, id) ==
  IF CollectionOf(W.docs[o].type) = NoCollection
  THEN Raise(W, "RetrieveError")
  ELSE IF id \notin Ids \/ W.store[CollectionOf(W.docs[o].type)][id] = NoSon
  THEN Raise([Getattr(W, CollectionOf(W.docs[o].type)) EXCEPT !.read = TRUE],
             "NotFoundError")
  ELSE CollectionCacheSet(
         Populate(
           transform_outgoing(
             [Getattr(W, CollectionOf(W.docs[o].type)) EXCEPT
                !.son = W.store[CollectionOf(W.docs[o].type)][id], !.read = TRUE]), o),
         CollectionOf(W.docs[o].type), HandleKind, id, o)

\* AbstractDocument.retrieve(id, db): the driver's own find({"_id": id}) on
\* self.collection(db), with the outgoing manipulators; id 0 is an
\* identifier no stored document has.
DocRetrieve(W, o, id) ==
  IF CollectionOf(W.docs[o].type) = NoCollection
  THEN Raise(W, "RetrieveError")
  ELSE IF id \notin Ids \/ W.store[CollectionOf(W.docs[o].type)][id] = NoSon
  THEN Raise([Getattr(W, CollectionOf(W.docs[o].type)) EXCEPT !.read = TRUE],
             "NotFoundError")
  ELSE Populate(
         transform_outgoing(
           [Getattr(W, CollectionOf(W.docs[o].type)) EXCEPT
              !.son = W.store[CollectionOf(W.docs[o].type)][id], !.read = TRUE]), o)

\* The `_id` of a mapping that holds none
NoKey == 0 - 1

\* retrieve that does not test what collection() returns: a document without
\* collection goes on to the test of the mapping, and then fails on None
retrieveWithoutCollectionTest(W, o, spec_or_id, db) ==
  IF CollectionOf(W.docs[o].type) = NoCollection
  THEN IF spec_or_id.dict /\ spec_or_id.id = NoKey
       THEN Raise(W, "RetrieveError")
       ELSE Raise(W, "AttributeError")
  ELSE IF ~db
  THEN Raise(W, "AttributeError")
  ELSE IF spec_or_id.dict /\ spec_or_id.id = NoKey
  THEN Raise(W, "RetrieveError")
  ELSE DocRetrieve(W, o, spec_or_id.id)

\* retrieve that does not test whether the mapping holds `_id`: the driver
\* is asked with the mapping as it is
retrieveWithoutIdTest(W, o, spec_or_id, db) ==
  IF CollectionOf(W.docs[o].type) = NoCollection
  THEN Raise(W, "RetrieveError")
  ELSE IF ~db
  THEN Raise(W, "AttributeError")
  ELSE DocRetrieve(W, o, IF spec_or_id.id = NoKey THEN 0 ELSE spec_or_id.id)

\* AbstractDocument.retrieve(spec_or_id, db).  spec_or_id is a raw identifier
\* (dict FALSE) or a mapping (dict TRUE) whose `_id` is id, NoKey for a
\* mapping without `_id`; db is FALSE for None.  collection(db) of the
\* classes that have a collection reads an attribute of db.
retrieve(W, o, spec_or_id, db) ==
  IF CollectionOf(W.docs[o].type) = NoCollection
  THEN Raise(W, "RetrieveError")
  ELSE IF ~db
  THEN Raise(W, "AttributeError")
  ELSE IF spec_or_id.dict /\ spec_or_id.id = NoKey
  THEN Raise(W, "RetrieveError")
  ELSE DocRetrieve(W, o, spec_or_id.id)

(***************************************************************************)
(* ObjectCacheCollection and Database.                                     *)
(***************************************************************************)
\* enable_caches that enables nothing
enable_cachesSkipped(cs) == cs

\* ObjectCacheCollection.enable_caches
enable_caches(cs) ==
  [n \in Collections |-> IF cs[n].exists THEN [cs[n] EXCEPT !.is_enabled = TRUE] ELSE cs[n]]

\* ObjectCacheCollection.disable_caches
disable_caches(cs) ==
  [n \in Collections |-> IF cs[n].exists THEN [cs[n] EXCEPT !.is_enabled = FALSE] ELSE cs[n]]

\* ObjectCacheCollection.clear_caches
clear_caches(cs) ==
  [n \in Collections |-> IF cs[n].exists THEN CacheClear(cs[n]) ELSE cs[n]]

(***************************************************************************)
(* Documents that hold documents at any depth.  A document of the graph    *)
(* has one stored attribute, child, and a class that has a collection      *)
(* (kind "ref") or none (kind "emb").  A value has the kind k: "str",      *)
(* "none", "doc" (the instance n), "oid" (the id of n), "son" (the mapping *)
(* n.toSON() returned: its key child holds what n.child holds) or "dict", a *)
(* plain mapping {item: v} whose v has the kind ik; tm tells whether the   *)
(* mapping has the key `_types_mapping`.                                   *)
(***************************************************************************)
GNodes == 1 .. MaxNode
Gv(k, ik, n) == [k |-> k, ik |-> ik, n |-> n, tm |-> FALSE]

\* No graph yet.  op, node, err, out and outtm describe the last call: out
\* is the value of the key child of the mapping transform_incoming returned,
\* outtm whether that mapping has the key `_types_mapping`; writes counts
\* the calls of the driver's write primitive for each document.
NoGraph ==
  [built |-> FALSE,
   nodes |-> [n \in GNodes |-> [kind |-> "emb", child |-> Gv("str", "", 0),
                                modified |-> FALSE, id |-> NoId]],
   writes |-> [n \in GNodes |-> 0],
   op |-> "", node |-> 0, err |-> "", out |-> Gv("str", "", 0), outtm |-> FALSE]

\* bson meets an AbstractDocument instance in the value v: toSON() copies the
\* attributes as they are, so the mapping of n holds what n.child holds.
RECURSIVE HoldsInstance(_, _, _)
HoldsInstance(nodes, v, fuel) ==
  \/ v.k = "doc"
  \/ v.k = "dict" /\ v.ik = "doc"
  \/ /\ fuel > 0
     /\ v.k = "son" \/ (v.k = "dict" /\ v.ik = "son")
     /\ HoldsInstance(nodes, nodes[v.n].child, fuel - 1)

RECURSIVE GraphSave(_, _, _)
RECURSIVE GraphTransform(_, _, _, _)

\* transform_incoming, a Document value m met under a key: the value that
\* replaces it, once value.save(db) has returned S, when it is referenced
GraphReferenced(S, m) == IF S.nodes[m].id = NoId THEN Gv("none", "", 0) ELSE Gv("oid", "", m)

\* DocumentTransformer.transform_incoming(n.toSON(), collection); collection
\* is FALSE for None.  A plain mapping is transformed in place by the
\* recursive call, and it is the mapping the attribute of n holds.
GraphTransform(G, n, collection, depth) ==
  IF G.err # "" THEN G
  ELSE IF G.nodes[n].child.k = "doc"
  THEN IF collection /\ G.nodes[G.nodes[n].child.n].kind = "ref"
       THEN IF GraphSave(G, G.nodes[n].child.n, depth + 1).err # ""
            THEN GraphSave(G, G.nodes[n].child.n, depth + 1)
            ELSE [GraphSave(G, G.nodes[n].child.n, depth + 1) EXCEPT
                    !.out = GraphReferenced(GraphSave(G, G.nodes[n].child.n, depth + 1),
                                            G.nodes[n].child.n),
                    !.outtm = TRUE]
       ELSE [G EXCEPT !.out = Gv("son", "", G.nodes[n].child.n), !.outtm = FALSE]
  ELSE IF G.nodes[n].child.k = "dict" /\ G.nodes[n].child.ik = "doc"
  THEN IF collection /\ G.nodes[G.nodes[n].child.n].kind = "ref"
       THEN IF GraphSave(G, G.nodes[n].child.n, depth + 1).err # ""
            THEN GraphSave(G, G.nodes[n].child.n, depth + 1)
            ELSE [GraphSave(G, G.nodes[n].child.n, depth + 1) EXCEPT
                    !.nodes[n].child =
                       [k |-> "dict",
                        ik |-> GraphReferenced(GraphSave(G, G.nodes[n].child.n, depth + 1),
                                               G.nodes[n].child.n).k,
                        n |-> G.nodes[n].child.n, tm |-> TRUE],
                    !.out =
                       [k |-> "dict",
                        ik |-> GraphReferenced(GraphSave(G, G.nodes[n].child.n, depth + 1),
                                               G.nodes[n].child.n).k,
                        n |-> G.nodes[n].child.n, tm |-> TRUE],
                    !.outtm = FALSE]
       ELSE [G EXCEPT !.nodes[n].child = Gv("dict", "son", G.nodes[n].child.n),
                      !.out = Gv("dict", "son", G.nodes[n].child.n),
                      !.outtm = FALSE]
  ELSE [G EXCEPT !.out = G.nodes[n].child, !.outtm = FALSE]

\* The driver's save of the mapping G.out for the document n, and what
\* Collection.save and AbstractDocument.save do with the id it returns.
GraphWrite(G, n) ==
  IF G.err # "" THEN G
  ELSE IF HoldsInstance(G.nodes, G.out, MaxNode)
  THEN [G EXCEPT !.err = "InvalidDocument"]
  ELSE [G EXCEPT !.writes[n] = @ + 1, !.nodes[n].id = n, !.nodes[n].modified = FALSE]

\* AbstractDocument.save(db) of the document n, depth save() calls deep
GraphSave(G, n, depth) ==
  IF G.err # "" THEN G
  ELSE IF depth > RecursionLimit THEN [G EXCEPT !.err = "RuntimeError"]
  ELSE IF ~G.nodes[n].modified THEN G
  ELSE IF G.nodes[n].kind = "emb" THEN [G EXCEPT !.err = "PersistError"]
  ELSE GraphWrite(GraphTransform(G, n, TRUE, depth), n)

(***************************************************************************)
(* The calls of the application.                                           *)
(***************************************************************************)
NoLast ==
  [op |-> "", obj |-> 0, name |-> "", key |-> 0, err |-> "", wrote |-> FALSE,
   read |-> FALSE, ret |-> NoId, res |-> Unset, mat |-> NoDoc, son |-> NoSon,
   arg |-> NoSon, dict |-> FALSE, db |-> TRUE]

\* The record of a call that worked on W.
Called(op, o, name, key, W) ==
  [op |-> op, obj |-> o, name |-> name, key |-> key, err |-> W.err,
   wrote |-> W.wrote, read |-> W.read, ret |-> W.ret, res |-> W.res, mat |-> W.mat,
   son |-> NoSon, arg |-> NoSon, dict |-> FALSE, db |-> TRUE]

\* The state a call leaves: what it did before an exception stays done.
Commit(W) ==
  /\ W.nextId <= MaxId + 1
  /\ docs' = W.docs
  /\ store' = W.store
  /\ nextId' = W.nextId
  /\ caches' = W.caches
  /\ UNCHANGED <<cache_is_enabled, lazy_loading_is_enabled, cursor>>

Live(o) == docs[o].type # ""

\* The values the applications gives the attribute `nested`: None or an
\* instance of a class without document-valued fields.
NestedValues ==
  {None} \cup {DocRef(p) : p \in {q \in Obj : docs[q].type \in {"AnotherConcrete", "NestedDocument"}}}

\* The values the application gives an attribute.
AttrValues(attribute) ==
  IF attribute = "nested" THEN NestedValues ELSE {Str(s) : s \in Scalars}

\* The constructors of the classes: AbstractDocument.__init__, then one
\* assignment for each argument.
Construct(type, v1, v2) ==
  IF type = "DocumentWithNested"
  THEN Setattr(Setattr(DocInit(type), "data", v1), "nested", v2)
  ELSE Setattr(DocInit(type), "foo", v1)

\* A payload without `_id` for fromSON.
Payload(type, s) ==
  Son(NoId, type,
      [f \in Fields |-> IF f \in InitFields(type)
                        THEN (IF f = "nested" THEN None ELSE Str(s))
                        ELSE Unset],
      NoTypesMapping)

\* The payload with the `_id` id
WithId(son, id) == [son EXCEPT !.id = id]

\* The payload without its `_type`
Untyped(son) == [son EXCEPT !.type = ""]

\* The payloads handed to o.fromSON: of every class, with an `_id` or
\* without, and the one of its own class without `_type`.
Payloads(o) ==
  {WithId(Payload(type, s), id) : type \in Types, s \in Scalars, id \in {NoId, 1}}
    \cup {Untyped(Payload(docs[o].type, s)) : s \in Scalars}

\* The state after select_db: an empty store, no instance, no cache, caching
\* and lazy loading enabled; calls is the number of calls of the run.
Start(calls) ==
  /\ docs = [o \in Obj |-> NoDoc]
  /\ store = [n \in Collections |-> [i \in Ids |-> NoSon]]
  /\ nextId = 1
  /\ caches = [n \in Collections |-> NoCache]
  /\ cache_is_enabled = TRUE
  /\ second_cache_is_enabled = TRUE
  /\ lazy_loading_is_enabled = TRUE
  /\ last = NoLast
  /\ cursor = NoCursor
  /\ graph = NoGraph
  /\ ops = calls

Init == Start(MaxOps)

\* One more call of the application on the Database db and what it handed
\* out: the flag of the second Database is an attribute of that instance.
Step ==
  /\ ops > 0
  /\ ops' = ops - 1
  /\ UNCHANGED <<second_cache_is_enabled, graph>>

\* o = Class(...)
New(o, type, v1, v2) ==
  /\ Step
  /\ ~Live(o)
  /\ \A p \in Obj : p < o => Live(p)
  /\ docs' = [docs EXCEPT ![o] = Construct(type, v1, v2)]
  /\ last' = [NoLast EXCEPT !.op = "new", !.obj = o]
  /\ UNCHANGED <<store, nextId, caches, cache_is_enabled, lazy_loading_is_enabled, cursor>>

\* o.attribute = value
Assign(o, attribute, value) ==
  /\ Step
  /\ Live(o)
  /\ attribute \in InitFields(docs[o].type)
  /\ docs' = [docs EXCEPT ![o] = Setattr(@, attribute, value)]
  /\ last' = [NoLast EXCEPT !.op = "setattr", !.obj = o, !.name = attribute]
  /\ UNCHANGED <<store, nextId, caches, cache_is_enabled, lazy_loading_is_enabled, cursor>>

\* o = ConcreteEmpty(): a class whose constructor assigns no attribute and
\* whose collection() returns None
NewEmpty(o) ==
  /\ Step
  /\ ~Live(o)
  /\ \A p \in Obj : p < o => Live(p)
  /\ docs' = [docs EXCEPT ![o] = DocInit("ConcreteEmpty")]
  /\ last' = [NoLast EXCEPT !.op = "new_empty", !.obj = o]
  /\ UNCHANGED <<store, nextId, caches, cache_is_enabled, lazy_loading_is_enabled, cursor>>

\* o._ignoredField = value
AssignPrivate(o, value) ==
  /\ Step
  /\ Live(o)
  /\ docs' = [docs EXCEPT ![o] = Setattr(@, "_ignoredField", value)]
  /\ last' = [NoLast EXCEPT !.op = "setattr", !.obj = o, !.name = "_ignoredField"]
  /\ UNCHANGED <<store, nextId, caches, cache_is_enabled, lazy_loading_is_enabled, cursor>>

\* o.id = value, o.modified = value: the two names of `_ignoredFields`, both
\* properties without setter.  __setattr__ hands the name, not a (name,
\* value) pair, to ignoreMember, which then tests the first character
\* against the list and answers False; attributeModified finds no entry in
\* __dict__ and no __getattr__, drops both caches and returns True; the
\* final object.__setattr__ raises AttributeError.
AssignIgnored(o, attribute) ==
  /\ Step
  /\ Live(o)
  /\ ~ignoreMember(attribute)
  /\ docs' = [docs EXCEPT ![o] = [_invalidateFieldsCache(@) EXCEPT
                                    !.fieldnames = NoFieldnamesCache,
                                    !.modified = TRUE]]
  /\ last' = [NoLast EXCEPT !.op = "setattr", !.obj = o, !.name = attribute,
                            !.err = "AttributeError"]
  /\ UNCHANGED <<store, nextId, caches, cache_is_enabled, lazy_loading_is_enabled, cursor>>

\* o.fromSON(son)
FromSON(o, son) ==
  /\ Step
  /\ Live(o)
  /\ docs' = [docs EXCEPT ![o] = IF fromSONRaises(@, son) = "" THEN fromSON(@, son) ELSE @]
  /\ last' = [NoLast EXCEPT !.op = "fromSON", !.obj = o, !.arg = son,
                            !.err = fromSONRaises(docs[o], son)]
  /\ UNCHANGED <<store, nextId, caches, cache_is_enabled, lazy_loading_is_enabled, cursor>>

\* o.toSON()
ToSON(o) ==
  /\ Step
  /\ Live(o)
  /\ docs' = [docs EXCEPT ![o] = fieldsToStoreEffect(@)]
  /\ last' = [NoLast EXCEPT !.op = "toSON", !.obj = o, !.son = toSON(docs[o])]
  /\ UNCHANGED <<store, nextId, caches, cache_is_enabled, lazy_loading_is_enabled, cursor>>

\* p = Class(); p.fromSON(o.toSON()), Class being the class of o and its
\* constructor called without argument
Copy(o, p) ==
  /\ Step
  /\ Live(o)
  /\ ~Live(p)
  /\ \A q \in Obj : q < p => Live(q)
  /\ docs' = [docs EXCEPT
                ![o] = fieldsToStoreEffect(@),
                ![p] = fromSON(Construct(docs[o].type, Str(""), None), toSON(docs[o]))]
  /\ last' = [NoLast EXCEPT !.op = "copy", !.obj = o, !.key = p, !.son = toSON(docs[o])]
  /\ UNCHANGED <<store, nextId, caches, cache_is_enabled, lazy_loading_is_enabled, cursor>>

\* o.save(db)
Save(o) ==
  /\ Step
  /\ Live(o)
  /\ LET W == DocSave(World, o)
     IN /\ Commit(W)
        /\ last' = [Called("save", o, CollectionOf(docs[o].type), 0, W) EXCEPT
                       !.res = IF W.err = "" THEN DocRef(o) ELSE Unset]

\* o.save(db) while the server refuses the k-th write of the call
SaveFailing(o, k) ==
  /\ Step
  /\ Live(o)
  /\ LET W == DocSave([World EXCEPT !.fail = k], o)
     IN /\ Commit(W)
        /\ W.err = "OperationFailure"
        /\ last' = [Called("save", o, CollectionOf(docs[o].type), k, W) EXCEPT
                       !.res = Unset]

\* o.collection(db).save(o, manipulate)
CollSave(o, manipulate) ==
  /\ Step
  /\ Live(o)
  /\ CollectionOf(docs[o].type) # NoCollection
  /\ LET name == CollectionOf(docs[o].type)
         W == CollectionSave(Getattr(World, name), name, HandleKind, o, manipulate)
     IN /\ Commit(W)
        /\ last' = Called("collection_save", o, name, 0, W)

\* The lists handed to insert: one document, or two.
Lists == {<<o>> : o \in Obj} \cup {<<o, p>> : o, p \in Obj}

\* collection.insert(o, manipulate) and collection.insert([o1, o2], manipulate)
\* on the collection of the documents' class
Insert(os, manipulate) ==
  /\ Step
  /\ \A k \in 1 .. Len(os) : Live(os[k]) /\ docs[os[k]].type = docs[os[1]].type
  /\ CollectionOf(docs[os[1]].type) # NoCollection
  /\ LET name == CollectionOf(docs[os[1]].type)
         W == CollectionInsert(Getattr(World, name), name, HandleKind, os, manipulate)
     IN /\ Commit(W)
        /\ last' = Called("insert", os[1], name, os[Len(os)], W)

\* o.collection(db).update(spec, o, manipulate=manipulate)
Update(spec, o, manipulate) ==
  /\ Step
  /\ Live(o)
  /\ CollectionOf(docs[o].type) # NoCollection
  /\ LET name == CollectionOf(docs[o].type)
         W == CollectionUpdate(Getattr(World, name), name, HandleKind, spec, o, manipulate)
     IN /\ Commit(W)
        /\ last' = Called("update", o, name, spec, W)

\* The first step of iterating db.<name>.find(spec)
Find(name, spec) ==
  /\ Step
  /\ LET W == CursorNext(Getattr(World, name), name, HandleKind, spec)
     IN /\ Commit(W)
        /\ last' = Called("find", 0, name, spec, W)

\* cursor = db.<name>.find({"_id": spec}); a cursor the application held
\* before is dropped.
OpenFind(name, spec) ==
  /\ Step
  /\ LET W == Getattr(World, name)
     IN /\ docs' = W.docs
        /\ store' = W.store
        /\ nextId' = W.nextId
        /\ caches' = W.caches
        /\ cursor' = [NoCursor EXCEPT !.open = TRUE, !.name = name,
                                      !.h = HandleKind, !.spec = spec]
        /\ last' = Called("find_cursor", 0, name, spec, W)
  /\ UNCHANGED <<cache_is_enabled, lazy_loading_is_enabled>>

\* db.<name>.remove({"_id": id}): Collection does not override the driver's
\* remove, so the document leaves the store and no cache is told.
Remove(name, id) ==
  /\ Step
  /\ LET W == Getattr(World, name)
     IN /\ docs' = W.docs
        /\ store' = [W.store EXCEPT ![name][id] = NoSon]
        /\ nextId' = W.nextId
        /\ caches' = W.caches
        /\ last' = [Called("remove", 0, name, id, W) EXCEPT !.wrote = TRUE]
  /\ UNCHANGED <<cache_is_enabled, lazy_loading_is_enabled, cursor>>

\* cursor.next()
CursorStep ==
  /\ Step
  /\ cursor.open
  /\ LET W == CursorNextOf(World, cursor)
     IN /\ docs' = W.docs
        /\ store' = W.store
        /\ nextId' = W.nextId
        /\ caches' = W.caches
        /\ cursor' = CursorAfter(World, cursor, W)
        /\ last' = Called("next", 0, cursor.name, cursor.spec, W)
  /\ UNCHANGED <<cache_is_enabled, lazy_loading_is_enabled>>

\* transformer.transform_incoming(o.toSON(), o.collection(db))
TransformIncoming(o) ==
  /\ Step
  /\ Live(o)
  /\ CollectionOf(docs[o].type) # NoCollection
  /\ LET name == CollectionOf(docs[o].type)
         W == transform_incoming(Serialize(Getattr(World, name), o, TRUE), name)
     IN /\ Commit(W)
        /\ last' = [Called("transform_incoming", o, name, 0, W) EXCEPT !.son = W.son]

\* transformer.transform_outgoing(transformer.transform_incoming(o.toSON(), c), c)
\* with c = o.collection(db)
RoundTrip(o) ==
  /\ Step
  /\ Live(o)
  /\ CollectionOf(docs[o].type) # NoCollection
  /\ LET name == CollectionOf(docs[o].type)
         W == transform_outgoing(
                transform_incoming(Serialize(Getattr(World, name), o, TRUE), name))
     IN /\ Commit(W)
        /\ last' = [Called("round_trip", o, name, 0, W) EXCEPT !.son = W.son]

\* transformer.transform_incoming(o.toSON(), None)
TransformIncomingDetached(o) ==
  /\ Step
  /\ Live(o)
  /\ LET W == transform_incoming(SerializeToSON(World, o), NoCollection)
     IN /\ Commit(W)
        /\ last' = [Called("transform_incoming", o, NoCollection, 0, W) EXCEPT !.son = W.son]

\* transformer.transform_outgoing(transformer.transform_incoming(o.toSON(), None), None)
RoundTripDetached(o) ==
  /\ Step
  /\ Live(o)
  /\ LET W == transform_outgoing(
                transform_incoming(SerializeToSON(World, o), NoCollection))
     IN /\ Commit(W)
        /\ last' = [Called("round_trip", o, NoCollection, 0, W) EXCEPT !.son = W.son]

\* o.retrieve(spec_or_id, db) with a mapping for spec_or_id, or with None for
\* db
RetrieveSpec(o, spec_or_id, db) ==
  /\ Step
  /\ Live(o)
  /\ LET W == retrieve(World, o, spec_or_id, db)
     IN /\ Commit(W)
        /\ last' = [Called("retrieve_spec", o, CollectionOf(docs[o].type), spec_or_id.id, W)
                      EXCEPT !.dict = spec_or_id.dict, !.db = db]

\* o.retrieve(id, db)
Retrieve(o, id) ==
  /\ Step
  /\ Live(o)
  /\ LET W == DocRetrieve(World, o, id)
     IN /\ Commit(W)
        /\ last' = Called("retrieve", o, CollectionOf(docs[o].type), id, W)

\* The mappings handed to transform_outgoing: a stored DocumentWithNested
\* whose key nested holds the ObjectId i, mapped by `_types_mapping` to the
\* class name t (none for ""), and whose key foo holds v.
Mappings ==
  {Son(NoId, "DocumentWithNested",
       [f \in Fields |-> IF f = "data" THEN Str("a") ELSE IF f = "nested" THEN Oid(i) ELSE v],
       [NoTypesMapping EXCEPT ![i] = t]) :
     i \in Ids,
     v \in {Unset, Val("son", NoId, "a", "NestedDocument")},
     t \in {"", "AnotherConcrete", "NestedDocument", "Unregistered"}}

\* transformer.transform_outgoing(son, db.document_with_nested)
TransformOutgoing(son) ==
  /\ Step
  /\ LET W == transform_outgoing(
                [Getattr(World, "document_with_nested") EXCEPT !.son = son])
     IN /\ Commit(W)
        /\ last' = [Called("transform_outgoing", 0, "document_with_nested", 0, W) EXCEPT
                       !.son = W.son, !.arg = son]

\* Database.enable_cache
EnableCache ==
  /\ Step
  /\ cache_is_enabled' = TRUE
  /\ caches' = IF ~cache_is_enabled THEN enable_caches(caches) ELSE caches
  /\ last' = [NoLast EXCEPT !.op = "enable_cache"]
  /\ UNCHANGED <<docs, store, nextId, lazy_loading_is_enabled, cursor>>

\* Database.disable_cache
DisableCache ==
  /\ Step
  /\ cache_is_enabled' = FALSE
  /\ caches' = IF cache_is_enabled THEN disable_caches(caches) ELSE caches
  /\ last' = [NoLast EXCEPT !.op = "disable_cache"]
  /\ UNCHANGED <<docs, store, nextId, lazy_loading_is_enabled, cursor>>

\* enable_cache (enabled TRUE) and disable_cache (enabled FALSE) of the second
\* Database: its own flag guards the call, the registry is the class-level
\* dictionary both instances of ObjectCacheCollection read.
SecondSetCache(enabled) ==
  /\ ops > 0
  /\ ops' = ops - 1
  /\ second_cache_is_enabled' = enabled
  /\ caches' = IF second_cache_is_enabled = enabled THEN caches
               ELSE IF enabled THEN enable_caches(caches)
               ELSE disable_caches(caches)
  /\ last' = [NoLast EXCEPT !.op = IF enabled THEN "second_enable_cache"
                                   ELSE "second_disable_cache"]
  /\ UNCHANGED <<docs, store, nextId, cache_is_enabled, lazy_loading_is_enabled, cursor,
                 graph>>

\* second.<name>: Database.__getattr__ of the second Database
SecondGetCollection(name) ==
  /\ ops > 0
  /\ ops' = ops - 1
  /\ caches' = IF second_cache_is_enabled /\ ~caches[name].exists
               THEN [caches EXCEPT ![name] = ObjectCache(TRUE)]
               ELSE caches
  /\ last' = [NoLast EXCEPT !.op = "second_getattr", !.name = name]
  /\ UNCHANGED <<docs, store, nextId, cache_is_enabled, second_cache_is_enabled,
                 lazy_loading_is_enabled, cursor, graph>>

\* Database.clear_cache
ClearCache ==
  /\ Step
  /\ caches' = clear_caches(caches)
  /\ last' = [NoLast EXCEPT !.op = "clear_cache"]
  /\ UNCHANGED <<docs, store, nextId, cache_is_enabled, lazy_loading_is_enabled, cursor>>

\* Database.enable_lazy_loading and Database.disable_lazy_loading
SetLazyLoading(enabled) ==
  /\ Step
  /\ lazy_loading_is_enabled' = enabled
  /\ last' = [NoLast EXCEPT !.op = "lazy_loading"]
  /\ UNCHANGED <<docs, store, nextId, caches, cache_is_enabled, cursor>>

(***************************************************************************)
(* The calls on an ObjectCache of the registry and on the registry.        *)
(***************************************************************************)
\* ObjectCacheCollection.set_cache(name, ObjectCache(is_enabled))
SetCache(name, is_enabled) ==
  /\ Step
  /\ caches' = [caches EXCEPT ![name] = ObjectCache(is_enabled)]
  /\ last' = [NoLast EXCEPT !.op = "set_cache", !.name = name]
  /\ UNCHANGED <<docs, store, nextId, cache_is_enabled, lazy_loading_is_enabled, cursor>>

\* db.<name>: Database.__getattr__
GetCollection(name) ==
  /\ Step
  /\ caches' = Getattr(World, name).caches
  /\ last' = [NoLast EXCEPT !.op = "getattr", !.name = name]
  /\ UNCHANGED <<docs, store, nextId, cache_is_enabled, lazy_loading_is_enabled, cursor>>

\* cache.is_enabled = is_enabled
SetEnabled(name, is_enabled) ==
  /\ Step
  /\ caches[name].exists
  /\ caches' = [caches EXCEPT ![name].is_enabled = is_enabled]
  /\ last' = [NoLast EXCEPT !.op = "set_enabled", !.name = name]
  /\ UNCHANGED <<docs, store, nextId, cache_is_enabled, lazy_loading_is_enabled, cursor>>

\* cache[key] = value; key 0 is a key that is no ObjectId
CacheSet(name, key, value) ==
  /\ Step
  /\ caches[name].exists
  /\ caches' = [caches EXCEPT ![name] = CacheSetitem(@, key, value)]
  /\ last' = [NoLast EXCEPT !.op = "cache_set", !.name = name, !.key = key, !.obj = value,
                            !.err = IF CacheSetitemRaises(caches[name], key)
                                    THEN "TypeError" ELSE ""]
  /\ UNCHANGED <<docs, store, nextId, cache_is_enabled, lazy_loading_is_enabled, cursor>>

\* cache[key]
CacheGet(name, key) ==
  /\ Step
  /\ caches[name].exists
  /\ last' = [NoLast EXCEPT !.op = "cache_get", !.name = name, !.key = key,
                            !.obj = CacheGetitem(caches[name], key),
                            !.err = IF CacheGetitem(caches[name], key) = 0
                                    THEN "KeyError" ELSE ""]
  /\ UNCHANGED <<docs, store, nextId, caches, cache_is_enabled, lazy_loading_is_enabled, cursor>>

\* del cache[key]
CacheDel(name, key) ==
  /\ Step
  /\ caches[name].exists
  /\ caches' = [caches EXCEPT ![name] = CacheDelitem(@, key)]
  /\ last' = [NoLast EXCEPT !.op = "cache_del", !.name = name, !.key = key,
                            !.err = IF caches[name].c[key] = 0 THEN "KeyError" ELSE ""]
  /\ UNCHANGED <<docs, store, nextId, cache_is_enabled, lazy_loading_is_enabled, cursor>>

\* key in cache, and len(cache)
CacheAsk(name, key) ==
  /\ Step
  /\ caches[name].exists
  /\ last' = [NoLast EXCEPT !.op = "cache_contains", !.name = name, !.key = key,
                            !.wrote = CacheContains(caches[name], key),
                            !.ret = CacheLen(caches[name])]
  /\ UNCHANGED <<docs, store, nextId, caches, cache_is_enabled, lazy_loading_is_enabled, cursor>>

\* cache.clear()
CacheClearAll(name) ==
  /\ Step
  /\ caches[name].exists
  /\ caches' = [caches EXCEPT ![name] = CacheClear(@)]
  /\ last' = [NoLast EXCEPT !.op = "cache_clear", !.name = name]
  /\ UNCHANGED <<docs, store, nextId, cache_is_enabled, lazy_loading_is_enabled, cursor>>

Next ==
  \/ \E o \in Obj, type \in Types, s \in Scalars, v \in NestedValues :
       New(o, type, Str(s), v)
  \/ \E o \in Obj, attribute \in Fields :
       \E value \in AttrValues(attribute) : Assign(o, attribute, value)
  \/ \E o \in Obj, s \in Scalars : FromSON(o, Payload(docs[o].type, s))
  \/ \E o \in Obj : Save(o)
  \/ \E o \in Obj, manipulate \in BOOLEAN : CollSave(o, manipulate)
  \/ \E os \in Lists, manipulate \in BOOLEAN : Insert(os, manipulate)
  \/ \E spec \in 0 .. MaxId, o \in Obj, manipulate \in BOOLEAN :
       Update(spec, o, manipulate)
  \/ \E name \in Collections, spec \in 0 .. MaxId : Find(name, spec)
  \/ \E o \in Obj : TransformIncoming(o)
  \/ \E o \in Obj : RoundTrip(o)
  \/ EnableCache
  \/ DisableCache
  \/ ClearCache
  \/ \E enabled \in BOOLEAN : SetLazyLoading(enabled)

Spec == Init /\ [][Next]_vars

\* The identity cache on its own: the calls on the caches and on the
\* registry, and the cache calls of Database.
NextCache ==
  \/ \E name \in Collections, is_enabled \in BOOLEAN : SetCache(name, is_enabled)
  \/ \E name \in Collections : GetCollection(name)
  \/ \E name \in Collections, is_enabled \in BOOLEAN : SetEnabled(name, is_enabled)
  \/ \E name \in Collections, key \in 0 .. MaxId, value \in Obj : CacheSet(name, key, value)
  \/ \E name \in Collections, key \in Ids : CacheGet(name, key)
  \/ \E name \in Collections, key \in Ids : CacheDel(name, key)
  \/ \E name \in Collections, key \in Ids : CacheAsk(name, key)
  \/ \E name \in Collections : CacheClearAll(name)
  \/ EnableCache
  \/ DisableCache
  \/ ClearCache

InitCache == Start(MaxCacheOps)

SpecCache == InitCache /\ [][NextCache]_vars

\* Two Databases of one process: their cache switches and their collections.
NextShared ==
  \/ \E name \in Collections : GetCollection(name)
  \/ EnableCache
  \/ DisableCache
  \/ \E enabled \in BOOLEAN : SecondSetCache(enabled)
  \/ \E name \in Collections : SecondGetCollection(name)

SpecShared == InitCache /\ [][NextShared]_vars

\* The application constructs the documents of a graph: each constructor
\* assigns child, so each document is modified and has no id.
GraphBuild(kinds, children) ==
  /\ ops > 0
  /\ ops' = ops - 1
  /\ ~graph.built
  /\ graph' = [NoGraph EXCEPT
                 !.built = TRUE,
                 !.nodes = [n \in GNodes |-> [kind |-> kinds[n], child |-> children[n],
                                              modified |-> TRUE, id |-> NoId]],
                 !.op = "build"]
  /\ UNCHANGED <<docs, store, nextId, caches, cache_is_enabled, second_cache_is_enabled,
                 lazy_loading_is_enabled, last, cursor>>

\* n.save(db), on a graph none of whose plain mappings holds a serialized
\* document yet
GraphSaveCall(n) ==
  /\ ops > 0
  /\ ops' = ops - 1
  /\ graph.built
  /\ \A m \in GNodes : graph.nodes[m].child.ik # "son"
  /\ graph' = [GraphSave([graph EXCEPT !.err = "", !.out = Gv("str", "", 0),
                                       !.outtm = FALSE], n, 1)
                 EXCEPT !.op = "save", !.node = n]
  /\ UNCHANGED <<docs, store, nextId, caches, cache_is_enabled, second_cache_is_enabled,
                 lazy_loading_is_enabled, last, cursor>>

\* transformer.transform_incoming(n.toSON(), collection), collection being
\* a Collection (TRUE) or None (FALSE)
GraphTransformCall(n, collection) ==
  /\ ops > 0
  /\ ops' = ops - 1
  /\ graph.built
  /\ \A m \in GNodes : graph.nodes[m].child.ik # "son"
  /\ graph' = [GraphTransform([graph EXCEPT !.err = "", !.out = Gv("str", "", 0),
                                            !.outtm = FALSE], n, collection, 1)
                 EXCEPT !.op = "transform_incoming", !.node = n]
  /\ UNCHANGED <<docs, store, nextId, caches, cache_is_enabled, second_cache_is_enabled,
                 lazy_loading_is_enabled, last, cursor>>

\* Saving and transforming documents that hold documents, directly, in a
\* plain mapping, or in a document they embed.
NextGraph ==
  \/ \E kinds \in [GNodes -> {"ref", "emb"}] :
       \E children \in [GNodes -> {Gv("str", "", 0), Gv("dict", "str", 0)}
                                     \cup {Gv(k, ik, m) : k \in {"doc"}, ik \in {""}, m \in GNodes}
                                     \cup {Gv(k, ik, m) : k \in {"dict"}, ik \in {"doc"}, m \in GNodes}] :
         GraphBuild(kinds, children)
  \/ \E n \in GNodes : GraphSaveCall(n)
  \/ \E n \in GNodes, collection \in BOOLEAN : GraphTransformCall(n, collection)

SpecGraph == Start(MaxGraphOps) /\ [][NextGraph]_vars

\* The documents on their own: construction, assignment, toSON and fromSON.
NextDoc ==
  \/ \E o \in Obj, type \in Types, s \in Scalars, v \in NestedValues :
       New(o, type, Str(s), v)
  \/ \E o \in Obj, attribute \in Fields :
       \E value \in AttrValues(attribute) : Assign(o, attribute, value)
  \/ \E o \in Obj : \E son \in Payloads(o) : FromSON(o, son)
  \/ \E o \in Obj : ToSON(o)
  \/ \E o, p \in Obj : Copy(o, p)
  \/ \E o \in Obj : NewEmpty(o)
  \/ \E o \in Obj : AssignPrivate(o, Str("a"))
  \/ \E o \in Obj, attribute \in {"id", "modified"} : AssignIgnored(o, attribute)

SpecDoc == Init /\ [][NextDoc]_vars

\* Reading: retrieve and transform_outgoing on what save has stored.
NextRead ==
  \/ \E o \in Obj, type \in Types, s \in Scalars, v \in NestedValues :
       New(o, type, Str(s), v)
  \/ \E o \in Obj : Save(o)
  \/ \E o \in Obj, id \in 0 .. MaxId : Retrieve(o, id)
  \/ \E o \in Obj, id \in NoKey .. MaxId, is_dict \in BOOLEAN, db \in BOOLEAN :
       /\ is_dict \/ (~db /\ id # NoKey)
       /\ RetrieveSpec(o, [dict |-> is_dict, id |-> id], db)
  \/ \E son \in Mappings : TransformOutgoing(son)
  \/ \E enabled \in BOOLEAN : SetLazyLoading(enabled)

SpecRead == Init /\ [][NextRead]_vars

\* The transformer on its own and under save and find: documents holding
\* documents, embedded or referenced.
NextTransform ==
  \/ \E o \in Obj, type \in Types, v \in NestedValues : New(o, type, Str("a"), v)
  \/ \E o \in Obj : FromSON(o, Payload(docs[o].type, "b"))
  \/ \E o \in Obj : Save(o)
  \/ \E o \in Obj : TransformIncoming(o)
  \/ \E o \in Obj : TransformIncomingDetached(o)
  \/ \E o \in Obj : RoundTrip(o)
  \/ \E o \in Obj : RoundTripDetached(o)
  \/ \E name \in Collections, spec \in Ids : Find(name, spec)
  \/ DisableCache

InitTransform == Start(MaxTransformOps)

\* The application saving through a connection whose server refuses a write.
NextFail ==
  \/ \E o \in Obj, type \in Types, v \in NestedValues : New(o, type, Str("a"), v)
  \/ \E o \in Obj, attribute \in Fields :
       \E value \in AttrValues(attribute) : Assign(o, attribute, value)
  \/ \E o \in Obj : Save(o)
  \/ \E o \in Obj, k \in 1 .. MaxObj : SaveFailing(o, k)

SpecFail == Start(MaxFailOps) /\ [][NextFail]_vars

\* The application loading documents, from mappings and from the store, into
\* instances it has built, stored and changed.
NextLoad ==
  \/ \E o \in Obj, type \in Types, v \in NestedValues : New(o, type, Str("a"), v)
  \/ \E o \in Obj, attribute \in Fields :
       \E value \in AttrValues(attribute) : Assign(o, attribute, value)
  \/ \E o \in Obj, type \in Types, typed \in BOOLEAN :
       FromSON(o, IF typed THEN Payload(type, "b") ELSE Untyped(Payload(type, "b")))
  \/ \E o \in Obj : Save(o)
  \/ \E o \in Obj, id \in 0 .. MaxId : Retrieve(o, id)
  \/ \E o \in Obj : RetrieveSpec(o, [dict |-> TRUE, id |-> NoKey], TRUE)
  \/ \E son \in Mappings : TransformOutgoing(son)
  \/ \E enabled \in BOOLEAN : SetLazyLoading(enabled)

SpecLoad == Start(MaxLoadOps) /\ [][NextLoad]_vars

SpecTransform == InitTransform /\ [][NextTransform]_vars

\* Iterating the cursor of a single-id find on another_concrete, with
\* collection and cache calls between the steps.
NextCursor ==
  \/ \E o \in Obj : New(o, "AnotherConcrete", Str("a"), None)
  \/ \E o \in Obj : CollSave(o, TRUE)
  \/ \E o \in Obj : Insert(<<o>>, TRUE)
  \/ \E id \in Ids : OpenFind("another_concrete", id)
  \/ CursorStep
  \/ EnableCache
  \/ DisableCache
  \/ ClearCache
  \/ \E id \in Ids : Remove("another_concrete", id)

InitCursor == Start(MaxCursorOps)

SpecCursor == InitCursor /\ [][NextCursor]_vars

(***************************************************************************)
(* What is checked.                                                        *)
(***************************************************************************)
\* collection.find_one({"_id": id}) on db.<name>: the first step of the cursor
Lookup(name, id) == CursorNext(Getattr(World, name), name, HandleKind, id)

\* The instance a lookup has yielded: the cached one, or the one it created.
Yielded(L) == IF L.res.k = "doc" THEN docs[L.res.n] ELSE L.mat

\* The documents of the last call: the one of a save or an update, the one
\* or the two of an insert.
LastDocs == IF last.op = "insert" THEN {last.obj, last.key} ELSE {last.obj}

\* C1: once an assignment has set modified to true, modified stays true
\* through the later field assignments (until the next save or fromSON):
\* an assignment to a modified document leaves it modified.
C1_ModifiedIsSticky ==
  [][(last'.op = "setattr" /\ docs[last'.obj].modified) => docs'[last'.obj].modified]_vars

\* C2: save() on a document whose modified is false returns that document
\* and changes neither its id nor its fields nor any instance, and invokes no
\* write on the store.
C2_UnmodifiedSaveIsNoOp ==
  [][(last'.op = "save" /\ ~docs[last'.obj].modified) =>
       /\ last'.err = ""
       /\ last'.res = DocRef(last'.obj)
       /\ ~last'.wrote
       /\ docs' = docs
       /\ store' = store]_vars

\* A save() that returned without a write, on a document that has an id.
C2_Witness ==
  /\ last.op = "save"
  /\ last.err = ""
  /\ ~last.wrote
  /\ docs[last.obj].id # NoId
  /\ ~docs[last.obj].modified

\* C3: save() on a modified document whose collection is real ends without
\* exception, has written it, leaves it with the non-null id returned and
\* modified false, returns the document; and a lookup of that id in its
\* collection yields a document with the same id, class and plain field values.
C3_SaveStores ==
  (last.op = "save" /\ last.name # NoCollection /\ (last.wrote \/ last.err # "")) =>
    /\ last.err = ""
    /\ last.wrote
    /\ last.res = DocRef(last.obj)
    /\ docs[last.obj].id \in Ids
    /\ docs[last.obj].id = last.ret
    /\ ~docs[last.obj].modified
    /\ Lookup(last.name, docs[last.obj].id).err = ""
    /\ Yielded(Lookup(last.name, docs[last.obj].id)).id = docs[last.obj].id
    /\ Yielded(Lookup(last.name, docs[last.obj].id)).type = docs[last.obj].type
    /\ \A f \in Fields :
         docs[last.obj].dict[f].k \in {"str", "none"} =>
           Yielded(Lookup(last.name, docs[last.obj].id)).dict[f] = docs[last.obj].dict[f]

\* A save() has written a document that holds a reference, with the cache
\* disabled: the lookup creates an instance.
C3_Witness ==
  /\ last.op = "save"
  /\ last.err = ""
  /\ last.wrote
  /\ docs[last.obj].type = "DocumentWithNested"
  /\ docs[last.obj].dict["nested"].k = "doc"
  /\ ~cache_is_enabled
  /\ Lookup(last.name, docs[last.obj].id).res.k = "new"

\* C4: after insert of d (alone or in a list) with the cache enabled,
\* find({"_id": d.id}) on that collection yields the instance d itself.
C4_InsertedIsCached ==
  (last.op = "insert" /\ last.err = "" /\ cache_is_enabled) =>
    \A o \in LastDocs :
      /\ docs[o].id \in Ids
      /\ Lookup(last.name, docs[o].id).res = DocRef(o)

\* An insert of a list of two documents with the cache enabled.
C4_Witness ==
  /\ last.op = "insert"
  /\ last.err = ""
  /\ cache_is_enabled
  /\ last.obj # last.key
  /\ docs[last.obj].id # docs[last.key].id
  /\ Lookup(last.name, docs[last.key].id).res = DocRef(last.key)

\* C5: with caching enabled, the document a find step yields, cached or just
\* created, is an instance the cache of that collection holds under its id.
C5_YieldedIsRegistered ==
  (last.op = "find" /\ last.err = "" /\ cache_is_enabled) =>
    /\ last.res.k = "doc"
    /\ docs[last.res.n].id \in Ids
    /\ CacheGetitem(caches[last.name], docs[last.res.n].id) = last.res.n

\* C6: after a write through a Collection (save, insert, insert of a list,
\* update) for which the store reports no error, with the cache enabled,
\* the call ends without exception, d.id is an identifier and the cache of
\* the collection maps it to d.  A TypeError is raised by the cache, after
\* the store's report.
C6_WrittenIsCached ==
  (/\ last.op \in {"save", "collection_save", "insert", "update"}
   /\ last.wrote
   /\ last.err \in {"", "TypeError"}
   /\ cache_is_enabled) =>
    /\ last.err = ""
    /\ \A o \in LastDocs :
         /\ docs[o].id \in Ids
         /\ CacheGetitem(caches[last.name], docs[o].id) = o

\* C7: after clear() on an ObjectCache, and after Database.clear_cache() on
\* every cache of the registry, the underlying storage is empty, whether the
\* cache is enabled or disabled.
C7_ClearEmptiesStorage ==
  /\ (last.op = "cache_clear" => caches[last.name].c = NoEntries)
  /\ (last.op = "clear_cache" => \A n \in Collections : caches[n].c = NoEntries)

C9_ReferenceIsAnId ==
  (last.op = "transform_incoming" /\ last.err = "") =>
    \A f \in Fields :
      (/\ fieldsToStore(docs[last.obj])[f].k = "doc"
       /\ CollectionOf(docs[fieldsToStore(docs[last.obj])[f].n].type) # NoCollection) =>
        /\ docs[fieldsToStore(docs[last.obj])[f].n].id \in Ids
        /\ last.son.f[f] = Oid(docs[fieldsToStore(docs[last.obj])[f].n].id)
        /\ last.son.tm[docs[fieldsToStore(docs[last.obj])[f].n].id]
             = docs[fieldsToStore(docs[last.obj])[f].n].type

\* The field foo of what a value of an outgoing mapping resolves to: the
\* retrieved document's, or the one of the document a placeholder finds.
ResolvedFoo(v) ==
  IF v.k = "new" THEN Str(v.s)
  ELSE IF v.k = "ph" /\ Lookup(v.s, v.n).err = ""
  THEN Yielded(Lookup(v.s, v.n)).dict["foo"]
  ELSE Unset

\* C10: after transform_outgoing(transform_incoming(A.toSON())), the field
\* that held the document B (with a collection) resolves, eagerly or through
\* its placeholder, to a document whose field equals B's, and B has a
\* non-null id.
C10_ReferenceRoundTrip ==
  (last.op = "round_trip" /\ last.err = "") =>
    \A f \in Fields :
      (/\ fieldsToStore(docs[last.obj])[f].k = "doc"
       /\ CollectionOf(docs[fieldsToStore(docs[last.obj])[f].n].type) # NoCollection) =>
        /\ docs[fieldsToStore(docs[last.obj])[f].n].id \in Ids
        /\ ResolvedFoo(last.son.f[f]) = docs[fieldsToStore(docs[last.obj])[f].n].dict["foo"]

\* A document none of whose fields holds a document that has a collection.
OnlyEmbeddable(d) ==
  \A f \in Fields : d.dict[f].k = "doc" => CollectionOf(docs[d.dict[f].n].type) = NoCollection

\* C11: for a document d with only embeddable fields, a new instance of its
\* class populated with fromSON(d.toSON()) equals d in every field and in
\* id, and its modified is false.
C11_SONRoundTrip ==
  (last.op = "copy" /\ OnlyEmbeddable(docs[last.obj])) =>
    /\ docs[last.key].id = docs[last.obj].id
    /\ ~docs[last.key].modified
    /\ \A f \in Fields : docs[last.key].dict[f] = docs[last.obj].dict[f]

\* C14: fromSON accepts a payload exactly when its `_type` is the name of the
\* target's class, and then populates the target; it raises KeyError when the
\* payload has no `_type` and fails its assertion when the `_type` names
\* another class, and then leaves the target as it was.
C14_FromSONChecksType ==
  [][last'.op = "fromSON" =>
       /\ (last'.err = "") = (last'.arg.type = docs[last'.obj].type)
       /\ (last'.arg.type = "" => last'.err = "KeyError")
       /\ (last'.arg.type \notin {"", docs[last'.obj].type} => last'.err = "AssertionError")
       /\ (last'.err # "" => docs' = docs)
       /\ (last'.err = "" =>
             /\ ~docs'[last'.obj].modified
             /\ \A f \in Fields :
                  last'.arg.f[f] # Unset => docs'[last'.obj].dict[f] = last'.arg.f[f])]_vars

\* fromSON has refused a payload of another class.
C14_Witness ==
  /\ last.op = "fromSON"
  /\ last.err = "AssertionError"
  /\ last.arg.type \in Types
  /\ last.arg.type # docs[last.obj].type

\* C12: save() on a document of a class whose collection() returns None
\* raises PersistError, whether the document is modified or not, and
\* invokes no write on the store.
C12_NestedOnlySaveFails ==
  (last.op = "save" /\ last.name = NoCollection) =>
    /\ last.err = "PersistError"
    /\ ~last.wrote

\* C13: retrieve on a document that has a collection, with an identifier no
\* stored document of that collection has, raises NotFoundError and leaves
\* every instance as it was.
C13_RetrieveNotFound ==
  [][(/\ last'.op = "retrieve"
      /\ last'.name # NoCollection
      /\ (last'.key \notin Ids \/ store[last'.name][last'.key] = NoSon)) =>
       /\ last'.err = "NotFoundError"
       /\ docs' = docs]_vars

\* A retrieve has found nothing under an ObjectId while its collection
\* holds another document.
C13_Witness ==
  /\ last.op = "retrieve"
  /\ last.err = "NotFoundError"
  /\ last.key \in Ids
  /\ \E i \in Ids : store[last.name][i] # NoSon

\* C15: transform_outgoing ends without exception on a mapping that holds an
\* ObjectId without `_types_mapping` entry, or with an entry that names no
\* class of the module: the ObjectId stays as it is and the embedded
\* mappings of the other keys become documents.
C15_UnresolvableStaysRaw ==
  last.op = "transform_outgoing" =>
    \A f \in Fields :
      (last.arg.f[f].k = "oid" /\ last.arg.tm[last.arg.f[f].n] \notin Types) =>
        /\ last.err = ""
        /\ last.son.f[f] = last.arg.f[f]
        /\ \A g \in Fields : last.arg.f[g].k = "son" => last.son.f[g].k = "new"

\* C16: in transform_outgoing an ObjectId that `_types_mapping` maps to a
\* class of the module becomes, with lazy loading enabled, a placeholder on
\* the collection of that class and the id, without any read of the store;
\* with lazy loading disabled, the document of that class that retrieve
\* populates from the store (retrieve raising RetrieveError for a class
\* without collection and NotFoundError for an id not stored).
C16_LazyOrEager ==
  last.op = "transform_outgoing" =>
    \A f \in Fields :
      (last.arg.f[f].k = "oid" /\ last.arg.tm[last.arg.f[f].n] \in Types) =>
        IF lazy_loading_is_enabled
        THEN /\ last.err = ""
             /\ ~last.read
             /\ last.son.f[f] = Val("ph", last.arg.f[f].n,
                                    CollectionOf(last.arg.tm[last.arg.f[f].n]),
                                    last.arg.tm[last.arg.f[f].n])
        ELSE IF CollectionOf(last.arg.tm[last.arg.f[f].n]) = NoCollection
        THEN last.err = "RetrieveError" /\ ~last.read
        ELSE IF store[CollectionOf(last.arg.tm[last.arg.f[f].n])][last.arg.f[f].n] = NoSon
        THEN last.err = "NotFoundError"
        ELSE /\ last.err = ""
             /\ last.read
             /\ last.son.f[f] =
                  Val("new", last.arg.f[f].n,
                      store[CollectionOf(last.arg.tm[last.arg.f[f].n])][last.arg.f[f].n].f["foo"].s,
                      last.arg.tm[last.arg.f[f].n])

\* With lazy loading disabled, an ObjectId has been replaced by the document
\* retrieved from the store.
C16_Witness ==
  /\ last.op = "transform_outgoing"
  /\ ~lazy_loading_is_enabled
  /\ last.err = ""
  /\ last.arg.f["nested"].k = "oid"
  /\ last.son.f["nested"].k = "new"
  /\ last.read

\* C17: a step of the cursor of a single-id find returns the instance the
\* cache of its Collection holds for that id, without reading the store,
\* and the whole iteration yields at most one document, whatever was called
\* between the steps.
C17_SingleIdYieldsOnce ==
  [][last'.op = "next" =>
       /\ CursorHit(World, cursor) =>
            /\ last'.err = ""
            /\ last'.res = DocRef(CacheGetitem(CollectionCache(World, cursor.name, cursor.h),
                                               cursor.spec))
            /\ ~last'.read
       /\ cursor'.yielded <= 1]_vars

\* C18: with the cache disabled through the Database, a find step for the
\* id of a stored document for which the registry's cache still holds an
\* instance yields a new instance, populated from the stored document (same
\* class, id and strings), and leaves every cache as it was.
C18_DisabledFindMaterializes ==
  [][(/\ last'.op = "find"
      /\ ~cache_is_enabled
      /\ last'.key \in Ids
      /\ store[last'.name][last'.key] # NoSon
      /\ caches[last'.name].c[last'.key] # 0) =>
       /\ last'.err = ""
       /\ last'.res.k = "new"
       /\ last'.mat.type = store[last'.name][last'.key].type
       /\ last'.mat.id = last'.key
       /\ \A f \in Fields :
            store[last'.name][last'.key].f[f].k = "str" =>
              last'.mat.dict[f] = store[last'.name][last'.key].f[f]
       /\ caches' = caches]_vars

\* A find step with the cache disabled has yielded a new instance for an id
\* under which the registry's cache holds the inserted one.
C18_Witness ==
  /\ last.op = "find"
  /\ ~cache_is_enabled
  /\ last.res.k = "new"
  /\ last.key \in Ids
  /\ caches[last.name].c[last.key] # 0
  /\ docs[caches[last.name].c[last.key]].id = last.key
  /\ last.mat.dict["data"].k = "str"

\* C19: a call through a Collection the Database hands out while caching is
\* enabled finds the registry holding a cache under the collection's name
\* afterwards, made by that call when there was none (and then holding only
\* what the call has written); a cache the registry held before, under this
\* name or under the name of a collection the call reaches for a nested
\* document, is the one that was there: enabled as before, with every entry
\* it had still present.  A call through a Collection handed out while
\* caching is disabled changes no cache and yields no cached instance.
C19_OneCachePerName ==
  [][last'.op \in {"collection_save", "insert", "update", "find"} =>
       IF cache_is_enabled
       THEN /\ caches'[last'.name].exists
            /\ \A name \in Collections :
                 caches[name].exists =>
                   /\ caches'[name].exists
                   /\ caches'[name].is_enabled = caches[name].is_enabled
                   /\ \A k \in Ids : caches[name].c[k] # 0 => caches'[name].c[k] # 0
            /\ ~caches[last'.name].exists =>
                 /\ caches'[last'.name].is_enabled
                 /\ \A k \in Ids : caches'[last'.name].c[k] # 0 => last'.wrote
       ELSE /\ caches' = caches
            /\ last'.res.k # "doc"]_vars

\* With caching enabled, a find through one Collection has yielded the
\* instance an insert through another Collection of that name has cached.
C19_Witness ==
  /\ last.op = "find"
  /\ cache_is_enabled
  /\ last.err = ""
  /\ last.res.k = "doc"
  /\ ~last.read
  /\ CacheGetitem(caches[last.name], last.key) = last.res.n

Outcome(W) == [store |-> W.store, err |-> W.err]

\* C21: a Collection.save, update or insert of a list, whatever the value of
\* manipulate it was called with, leaves the store and ends as the same call
\* with manipulate=True does: the mapping written is the one
\* transform_incoming makes.
C21_ManipulateFalseSameMapping ==
  [][/\ (/\ last'.op = "collection_save"
         /\ CollectionSave(Getattr(World, last'.name), last'.name, HandleKind,
                           last'.obj, TRUE).nextId <= MaxId + 1) =>
          [store |-> store', err |-> last'.err] =
            Outcome(CollectionSave(Getattr(World, last'.name), last'.name, HandleKind,
                                   last'.obj, TRUE))
     /\ (/\ last'.op = "update"
         /\ CollectionUpdate(Getattr(World, last'.name), last'.name, HandleKind,
                             last'.key, last'.obj, TRUE).nextId <= MaxId + 1) =>
          [store |-> store', err |-> last'.err] =
            Outcome(CollectionUpdate(Getattr(World, last'.name), last'.name, HandleKind,
                                     last'.key, last'.obj, TRUE))
     /\ (/\ last'.op = "insert"
         /\ last'.obj # last'.key
         /\ CollectionInsert(Getattr(World, last'.name), last'.name, HandleKind,
                             <<last'.obj, last'.key>>, TRUE).nextId <= MaxId + 1) =>
          [store |-> store', err |-> last'.err] =
            Outcome(CollectionInsert(Getattr(World, last'.name), last'.name, HandleKind,
                                     <<last'.obj, last'.key>>, TRUE))]_vars

\* The keys of the document o whose value transform_incoming stores as a
\* reference: a document that has a collection.
ReferenceKeys(o) ==
  {f \in Fields :
     /\ fieldsToStore(docs[o])[f].k = "doc"
     /\ CollectionOf(docs[fieldsToStore(docs[o])[f].n].type) # NoCollection}

\* C22: the mapping transform_incoming returns has entries in
\* `_types_mapping` exactly when a key was stored as a reference; the entries
\* are one per referenced document, from the string of its identifier to the
\* name of its class; a mapping without any document is returned as it was.
C22_TypesMappingIffReference ==
  (last.op = "transform_incoming" /\ last.err = "") =>
    /\ (\E i \in 0 .. MaxId : last.son.tm[i] # "") <=> ReferenceKeys(last.obj) # {}
    /\ \A f \in ReferenceKeys(last.obj) :
         /\ docs[fieldsToStore(docs[last.obj])[f].n].id \in Ids
         /\ last.son.tm[docs[fieldsToStore(docs[last.obj])[f].n].id]
              = docs[fieldsToStore(docs[last.obj])[f].n].type
    /\ \A i \in 0 .. MaxId :
         last.son.tm[i] # "" =>
           /\ i \in Ids
           /\ \E f \in ReferenceKeys(last.obj) :
                docs[fieldsToStore(docs[last.obj])[f].n].id = i
    /\ DocumentKeys(toSON(docs[last.obj])) = {} => last.son = toSON(docs[last.obj])

\* The keys of the mapping o.toSON() whose document transform_incoming
\* embeds when it is called with the collection name: the document has no
\* collection, or name is None.
EmbeddedKeys(o, name) ==
  {f \in DocumentKeys(toSON(docs[o])) :
     \/ name = NoCollection
     \/ CollectionOf(docs[toSON(docs[o]).f[f].n].type) = NoCollection}

\* C23: transform_incoming replaces a document that has no collection, and
\* every document when it is called without collection, by the document's
\* toSON() mapping, and leaves the id and modified of that document as they
\* were; a call that embeds every document it meets writes nothing to the
\* store.
C23_EmbeddedIsNotPersisted ==
  [][(last'.op = "transform_incoming" /\ last'.err = "") =>
       /\ \A f \in EmbeddedKeys(last'.obj, last'.name) :
            /\ last'.son.f[f] = Embedded(docs[toSON(docs[last'.obj]).f[f].n])
            /\ docs'[toSON(docs[last'.obj]).f[f].n].id
                 = docs[toSON(docs[last'.obj]).f[f].n].id
            /\ docs'[toSON(docs[last'.obj]).f[f].n].modified
                 = docs[toSON(docs[last'.obj]).f[f].n].modified
       /\ EmbeddedKeys(last'.obj, last'.name) = DocumentKeys(toSON(docs[last'.obj])) =>
            /\ store' = store
            /\ ~last'.wrote
            /\ last'.son.tm = NoTypesMapping]_vars

\* transform_incoming, called without collection, has embedded a modified
\* document of a class that has a collection.
C23_Witness ==
  /\ last.op = "transform_incoming"
  /\ last.err = ""
  /\ last.name = NoCollection
  /\ last.son.f["nested"].k = "son"
  /\ last.son.f["nested"].t = "AnotherConcrete"
  /\ docs[docs[last.obj].dict["nested"].n].modified
  /\ docs[docs[last.obj].dict["nested"].n].id = NoId

\* The value v is a document of the class of the document p, equal to it in
\* its field foo: p itself, or an instance created by a read.
EqualNested(v, p) ==
  \/ v = DocRef(p)
  \/ /\ v.k = "new"
     /\ v.t = docs[p].type
     /\ Str(v.s) = docs[p].dict["foo"]

\* C24: transform_outgoing applied to the result of transform_incoming turns
\* every embedded mapping back into a document of the class of the one that
\* was embedded, equal to it in its fields; and after a save of a document
\* that holds a document without collection, a lookup of its id yields a
\* document with equal fields and an equal nested document.
C24_EmbeddedRoundTrip ==
  /\ (last.op = "round_trip" /\ last.err = "") =>
       \A f \in EmbeddedKeys(last.obj, last.name) :
         /\ last.son.f[f].k = "new"
         /\ EqualNested(last.son.f[f], toSON(docs[last.obj]).f[f].n)
  /\ (last.op = "save" /\ last.err = "" /\ last.wrote) =>
       \A f \in EmbeddedKeys(last.obj, last.name) :
         /\ Lookup(last.name, docs[last.obj].id).err = ""
         /\ Yielded(Lookup(last.name, docs[last.obj].id)).dict["data"]
              = docs[last.obj].dict["data"]
         /\ EqualNested(Yielded(Lookup(last.name, docs[last.obj].id)).dict[f],
                        toSON(docs[last.obj]).f[f].n)

\* C25: the mapping toSON() returns holds `_type`, the name of the
\* document's class; `_id` exactly when the id is not None, with its value;
\* and exactly the public attributes of the document, each with the value it
\* has now.
C25_ToSONIsTheCurrentFields ==
  last.op = "toSON" =>
    /\ last.son.type = docs[last.obj].type
    /\ last.son.id = docs[last.obj].id
    /\ \A f \in Fields : last.son.f[f] = docs[last.obj].dict[f]
    /\ last.son.tm = NoTypesMapping

\* C26: fromSON leaves the document with modified false; an assignment to a
\* document whose modified is false leaves it false when it gives a stored
\* field the value it has, and when it is made to a private attribute; a
\* constructor that assigns no stored field leaves modified false, one that
\* assigns stored fields leaves it true.
C26_ModifiedAfterLoadAndConstruction ==
  [][/\ (last'.op = "fromSON" /\ last'.err = "") => ~docs'[last'.obj].modified
     /\ (/\ last'.op = "setattr"
         /\ ~docs[last'.obj].modified
         /\ \/ last'.name \in PrivateNames
            \/ /\ last'.name \in Fields
               /\ docs[last'.obj].dict[last'.name] # Unset
               /\ docs'[last'.obj].dict[last'.name] = docs[last'.obj].dict[last'.name]) =>
          ~docs'[last'.obj].modified
     /\ last'.op = "new_empty" => ~docs'[last'.obj].modified
     /\ last'.op = "new" => docs'[last'.obj].modified]_vars

\* An assignment has given a stored field of a document populated by
\* fromSON a value, and the document is not modified.
C26_Witness ==
  /\ last.op = "setattr"
  /\ last.name \in Fields
  /\ docs[last.obj].dict[last.name].k = "str"
  /\ ~docs[last.obj].modified
  /\ docs[last.obj].id # NoId

\* C27 as stated: every write to a cache with a key that is not an ObjectId
\* raises TypeError and leaves the caches as they were, and every key
\* present in a cache is an ObjectId.
C27_InvalidKeyAlwaysFails ==
  /\ [](\A name \in Collections : \A k \in DOMAIN caches[name].c :
          caches[name].c[k] # 0 => k \in Ids)
  /\ [][(last'.op = "cache_set" /\ last'.key \notin Ids) =>
          (last'.err = "TypeError" /\ caches' = caches)]_vars

\* C27 amended: a write with a key that is not an ObjectId leaves the caches
\* as they were; it raises TypeError when the cache is enabled and is
\* dropped without an error when the cache is disabled; every key present
\* in a cache is an ObjectId.
C27_InvalidKeyFailsWhenEnabled ==
  /\ [](\A name \in Collections : \A k \in DOMAIN caches[name].c :
          caches[name].c[k] # 0 => k \in Ids)
  /\ [][(last'.op = "cache_set" /\ last'.key \notin Ids) =>
          /\ caches' = caches
          /\ last'.err = (IF caches[last'.name].is_enabled THEN "TypeError" ELSE "")]_vars

C27_Witness ==
  /\ last.op = "cache_set"
  /\ last.key \notin Ids
  /\ last.err = "TypeError"
  /\ caches[last.name].is_enabled
  /\ \E k \in Ids : caches[last.name].c[k] # 0

\* C28: retrieve on a document whose class has no collection raises
\* RetrieveError before any read of the store, whether spec_or_id is a raw
\* identifier, a mapping with `_id` or a mapping without, and whether db is
\* a database or None; no instance, no store and no cache changes.
C28_NestedOnlyRetrieveFails ==
  [][(last'.op \in {"retrieve", "retrieve_spec"} /\ last'.name = NoCollection) =>
       /\ last'.err = "RetrieveError"
       /\ ~last'.read
       /\ docs' = docs
       /\ store' = store
       /\ caches' = caches]_vars

\* A nested-only document has been asked to retrieve a raw identifier that
\* a stored document of another class has, with a database.
C28_Witness ==
  /\ last.op = "retrieve"
  /\ last.name = NoCollection
  /\ last.key \in Ids
  /\ last.err = "RetrieveError"
  /\ \E name \in Collections : store[name][last.key] # NoSon

\* C29: retrieve with a mapping that has no `_id`, on a document that has a
\* collection, raises RetrieveError without a read of the store and leaves
\* every instance as it was; retrieve with the mapping {_id: id} does what
\* retrieve with the raw identifier id does.
C29_SpecWithoutIdFails ==
  [][(last'.op = "retrieve_spec" /\ last'.dict /\ last'.db /\ last'.name # NoCollection) =>
       IF last'.key = NoKey
       THEN /\ last'.err = "RetrieveError"
            /\ ~last'.read
            /\ docs' = docs
       ELSE /\ last'.err = DocRetrieve(World, last'.obj, last'.key).err
            /\ last'.read = DocRetrieve(World, last'.obj, last'.key).read
            /\ docs' = DocRetrieve(World, last'.obj, last'.key).docs
            /\ caches' = DocRetrieve(World, last'.obj, last'.key).caches]_vars

\* A retrieve with a mapping without `_id` has failed on a document whose
\* collection holds a document.
C29_Witness ==
  /\ last.op = "retrieve_spec"
  /\ last.dict
  /\ last.db
  /\ last.key = NoKey
  /\ last.err = "RetrieveError"
  /\ last.name # NoCollection
  /\ \E i \in Ids : store[last.name][i] # NoSon

\* C30: once fromSON has populated a document from a payload, toSON() of the
\* document returns the payload's `_type`, its `_id` and, for each field the
\* payload holds, the payload's value, whatever toSON or fieldsToStore
\* calls came before the load.
C30_ToSONReflectsTheLoad ==
  (last.op = "fromSON" /\ last.err = "") =>
    /\ toSON(docs[last.obj]).type = last.arg.type
    /\ last.arg.id # NoId => toSON(docs[last.obj]).id = last.arg.id
    /\ \A f \in Fields :
         last.arg.f[f] # Unset => toSON(docs[last.obj]).f[f] = last.arg.f[f]

\* C31: an assignment to an attribute whose name starts with an underscore
\* or is in the ignore list leaves modified as it was, whether it was true
\* or false.
C31_IgnoredAssignmentKeepsModified ==
  [][(last'.op = "setattr" /\ last'.name \in PrivateNames \cup {"id", "modified"}) =>
       docs'[last'.obj].modified = docs[last'.obj].modified]_vars

\* C32: a document that a step of the cursor of find({"_id": id}) yields,
\* cached instance or new one, has the id the query asks for, and a
\* document with that id is in the collection when the step returns.
C32_YieldedIsStored ==
  [][(last'.op = "next" /\ last'.err = "") =>
       LET id == IF last'.res.k = "doc" THEN docs'[last'.res.n].id ELSE last'.res.n
       IN /\ id = last'.key
          /\ store'[last'.name][id] # NoSon]_vars

\* C33: once the registry holds a cache, the flag of each of the two
\* Databases tells whether every registered cache is enabled; and when
\* enable_cache of either Database returns, every registered cache is
\* enabled.
C33_FlagAgreesWithSharedCaches ==
  /\ []((\E name \in Collections : caches[name].exists) =>
         /\ cache_is_enabled =
              (\A name \in Collections : caches[name].exists => caches[name].is_enabled)
         /\ second_cache_is_enabled =
              (\A name \in Collections : caches[name].exists => caches[name].is_enabled))
  /\ [][last'.op \in {"enable_cache", "second_enable_cache"} =>
          \A name \in Collections : caches'[name].exists => caches'[name].is_enabled]_vars

\* C34: the mapping transform_incoming returns holds no Document instance
\* at any depth: not under its keys, not in a plain mapping, not in the
\* mapping of a document it embedded.
C34_NoInstanceAtAnyDepth ==
  (graph.op = "transform_incoming" /\ graph.err = "") =>
    ~HoldsInstance(graph.nodes, graph.out, MaxNode)

\* C35: save and transform_incoming leave the attribute of every document
\* of the graph holding what it held: documents are still documents, and a
\* plain mapping has its content and no `_types_mapping` key.
C35_GraphIsNotMutated ==
  [][graph'.op \in {"save", "transform_incoming"} =>
       \A n \in GNodes : graph'.nodes[n].child = graph.nodes[n].child]_vars

\* C37: save returns without exhausting the recursion limit on every graph,
\* cycles included, and calls the write primitive at most once for each
\* document.
C37_SaveTerminates ==
  [][graph'.op = "save" =>
       /\ graph'.err # "RuntimeError"
       /\ \A n \in GNodes : graph'.writes[n] <= graph.writes[n] + 1]_vars

\* C36: a constructor leaves no stale cache, and an assignment or a toSON()
\* on a document whose caches are current leaves them current: `_fields`,
\* when set, holds the current value of every stored attribute, and
\* `_fieldnames`, when set, holds exactly the names of the stored
\* attributes; so fieldsToStore() and fieldnamesToStore() return what a
\* fresh computation returns.
C36_FieldsCacheIsInvalidated ==
  [][(/\ last'.op \in {"new", "new_empty", "setattr", "toSON"}
      /\ docs[last'.obj].fields.set => docs[last'.obj].fields.val = docs[last'.obj].dict
      /\ docs[last'.obj].fieldnames.set =>
           docs[last'.obj].fieldnames.val = Members(docs[last'.obj])) =>
       /\ fieldsToStore(docs'[last'.obj]) = docs'[last'.obj].dict
       /\ fieldnamesToStore(docs'[last'.obj]) = Members(docs'[last'.obj])
       /\ {f \in Fields : fieldsToStore(docs'[last'.obj])[f] # Unset}
            = fieldnamesToStore(docs'[last'.obj])]_vars

\* An assignment has changed a stored attribute of a document that had both
\* caches: `_fields` is dropped, `_fieldnames` is kept.
C36_Witness ==
  /\ last.op = "setattr"
  /\ last.name \in Fields
  /\ docs[last.obj].fieldnames.set
  /\ ~docs[last.obj].fields.set
  /\ docs[last.obj].modified

\* The stored documents a step has written or replaced.
Rewritten ==
  {e \in Collections \X Ids : store'[e[1]][e[2]] # store[e[1]][e[2]]}

\* C38: when the write primitive raises during Document.save, the error
\* reaches the caller and nothing is tried again (fewer writes took effect
\* than the rank of the refused one), the Document is still modified and has
\* the id it had, and no Identity Cache entry is added or replaced for it.
C38_FailedWriteSurfaces ==
  [][(last'.op = "save" /\ last'.err \in {"OperationFailure", "InvalidDocument"})
       => /\ last'.res = Unset
          /\ last'.err = "OperationFailure" => Cardinality(Rewritten) < last'.key
          /\ docs'[last'.obj].modified
          /\ docs'[last'.obj].id = docs[last'.obj].id
          /\ \A name \in Collections, k \in Ids :
               caches'[name].c[k] = last'.obj => caches[name].c[k] = last'.obj]_vars

\* The server has refused the write of a Document that was stored and cached
\* before, after the write of the Document it references.
C38_Witness ==
  /\ last.op = "save"
  /\ last.err = "OperationFailure"
  /\ last.key = 2
  /\ docs[last.obj].id # NoId
  /\ \E k \in Ids : caches[last.name].c[k] = last.obj

\* The server has refused the only write of the save of a new Document.
C38_WitnessNew ==
  /\ last.op = "save"
  /\ last.err = "OperationFailure"
  /\ last.key = 1
  /\ docs[last.obj].id = NoId
  /\ docs[last.obj].modified

\* C39: retrieve, and the eager resolution of a reference in
\* transform_outgoing, leave the entries of every Identity Cache as they
\* were, and what they load is the document as the store holds it: the target
\* of a retrieve that succeeds has the id asked for and the stored scalar
\* fields, and an eagerly resolved reference holds the stored document.
C39_RetrieveBypassesCache ==
  [][/\ last'.op \in {"retrieve", "retrieve_spec", "transform_outgoing"} =>
          \A name \in Collections : caches'[name].c = caches[name].c
     /\ (last'.op = "retrieve" /\ last'.err = "") =>
          /\ docs'[last'.obj].id = last'.key
          /\ \A f \in Fields :
               store[last'.name][last'.key].f[f].k = "str" =>
                 docs'[last'.obj].dict[f] = store[last'.name][last'.key].f[f]
     /\ (last'.op = "transform_outgoing" /\ last'.err = "") =>
          \A f \in Fields :
            (last'.arg.f[f].k = "oid" /\ last'.son.f[f].k = "new") =>
              last'.son.f[f].s =
                store[CollectionOf(last'.son.f[f].t)][last'.arg.f[f].n].f["foo"].s]_vars

\* A retrieve has populated its target from the store while the Identity
\* Cache of the collection holds, for the same id, another instance whose
\* fields differ from the stored document.
C39_Witness ==
  /\ last.op = "retrieve"
  /\ last.err = ""
  /\ \E p \in Obj \ {last.obj} :
       /\ caches[last.name].c[last.key] = p
       /\ docs[p].dict # docs[last.obj].dict
       /\ \E f \in Fields :
            /\ store[last.name][last.key].f[f].k = "str"
            /\ docs[p].dict[f] # store[last.name][last.key].f[f]
            /\ docs[last.obj].dict[f] = store[last.name][last.key].f[f]

\* A reference has been resolved eagerly while the Identity Cache holds an
\* instance for its id whose field differs from the stored document.
C39_WitnessEager ==
  /\ last.op = "transform_outgoing"
  /\ last.err = ""
  /\ \E f \in Fields :
       /\ last.arg.f[f].k = "oid"
       /\ last.son.f[f].k = "new"
       /\ \E p \in Obj :
            /\ caches[CollectionOf(last.son.f[f].t)].c[last.arg.f[f].n] = p
            /\ docs[p].dict["foo"].s # last.son.f[f].s

\* C40: a fromSON that fails (KeyError for a mapping without `_type`,
\* AssertionError for the `_type` of another class) and a retrieve that fails
\* (RetrieveError, NotFoundError) leave the fields, the id and the modified
\* flag of the target as they were before the call.
C40_FailedLoadKeepsTarget ==
  [][(/\ last'.op \in {"fromSON", "retrieve", "retrieve_spec"}
      /\ last'.err \in {"KeyError", "AssertionError", "RetrieveError", "NotFoundError"}) =>
       /\ docs'[last'.obj].dict = docs[last'.obj].dict
       /\ docs'[last'.obj].id = docs[last'.obj].id
       /\ docs'[last'.obj].modified = docs[last'.obj].modified]_vars

\* A retrieve has found nothing for a target that was stored and then
\* changed: it has an id, fields and modified = True to lose.
C40_Witness ==
  /\ last.op = "retrieve"
  /\ last.err = "NotFoundError"
  /\ docs[last.obj].id # NoId
  /\ docs[last.obj].modified
  /\ store[last.name][docs[last.obj].id] # NoSon

\* fromSON has refused a mapping for a target that was stored and then
\* changed.
C40_WitnessFromSON ==
  /\ last.op = "fromSON"
  /\ last.err \in {"KeyError", "AssertionError"}
  /\ docs[last.obj].id # NoId
  /\ docs[last.obj].modified

\* A retrieve has raised RetrieveError for a modified target.
C40_WitnessRetrieveError ==
  /\ last.op \in {"retrieve", "retrieve_spec"}
  /\ last.err = "RetrieveError"
  /\ docs[last.obj].modified


====
